---- MODULE Spec2Model ----
(***************************************************************************)
(* Kestrel: distributed 64-bit ID allocation over a shared Redis store.    *)
(*                                                                         *)
(* The model covers the allocation script (src/scripts/generateIds.lua,    *)
(* embedded in src/index.ts as GENERATE_IDS_SCRIPT), the issuance facade   *)
(* Kestrel.getIds and the decoder Kestrel.decodeIds / decodeId.            *)
(*                                                                         *)
(* TLC integers are 32 bits wide while identifiers are 64 bits wide, so    *)
(* every value that can exceed 2^31 (store time, timestamps, identifiers)  *)
(* is an arbitrary-precision natural: a little-endian sequence of 15-bit   *)
(* limbs without leading zero limbs; <<>> is zero.                         *)
(***************************************************************************)
EXTENDS Integers, Sequences, FiniteSets, TLC

(***************************************************************************)
(* Arbitrary-precision naturals                                            *)
(***************************************************************************)
LimbBits == 15
Limb == 32768

Min(x, y) == IF x <= y THEN x ELSE y
Max(x, y) == IF x >= y THEN x ELSE y
Abs(x) == IF x < 0 THEN 0 - x ELSE x

RECURSIVE Pow2(_)
Pow2(n) == IF n = 0 THEN 1 ELSE 2 * Pow2(n - 1)

RECURSIVE BigNorm(_)
BigNorm(a) ==
    IF a = <<>> THEN a
    ELSE IF a[Len(a)] = 0 THEN BigNorm(SubSeq(a, 1, Len(a) - 1)) ELSE a

RECURSIVE BigFromInt(_)
BigFromInt(n) == IF n = 0 THEN <<>> ELSE <<n % Limb>> \o BigFromInt(n \div Limb)

RECURSIVE BigToInt(_)
BigToInt(a) == IF a = <<>> THEN 0 ELSE a[1] + Limb * BigToInt(Tail(a))

LimbAt(a, i) == IF i <= Len(a) THEN a[i] ELSE 0

\* a * m + c, for 0 <= m <= 2^15 and 0 <= c < 2^30
RECURSIVE BigMulAdd(_, _, _)
BigMulAdd(a, m, c) ==
    IF a = <<>> THEN BigFromInt(c)
    ELSE LET v == a[1] * m + (c % Limb)
         IN  BigNorm(<<v % Limb>> \o BigMulAdd(Tail(a), m, (v \div Limb) + (c \div Limb)))

RECURSIVE BigAddC(_, _, _, _)
BigAddC(a, b, i, carry) ==
    IF i > Len(a) /\ i > Len(b)
    THEN IF carry = 0 THEN <<>> ELSE <<carry>>
    ELSE LET v == LimbAt(a, i) + LimbAt(b, i) + carry
         IN  <<v % Limb>> \o BigAddC(a, b, i + 1, v \div Limb)

BigAdd(a, b) == BigAddC(a, b, 1, 0)

\* a - b, for a >= b
RECURSIVE BigSubB(_, _, _, _)
BigSubB(a, b, i, borrow) ==
    IF i > Len(a) THEN <<>>
    ELSE LET v == a[i] - LimbAt(b, i) - borrow
         IN  IF v < 0 THEN <<v + Limb>> \o BigSubB(a, b, i + 1, 1)
                      ELSE <<v>> \o BigSubB(a, b, i + 1, 0)

BigSub(a, b) == BigNorm(BigSubB(a, b, 1, 0))

\* comparison of the limbs i..1, most significant first
RECURSIVE BigLessFrom(_, _, _)
BigLessFrom(a, b, i) ==
    IF i = 0 THEN FALSE
    ELSE IF a[i] # b[i] THEN a[i] < b[i]
    ELSE BigLessFrom(a, b, i - 1)

BigLess(a, b) ==
    IF Len(a) # Len(b) THEN Len(a) < Len(b) ELSE BigLessFrom(a, b, Len(a))

BigLeq(a, b) == a = b \/ BigLess(a, b)

\* quotient and remainder of the limbs i..1 of a by a small d, remainder r carried in
RECURSIVE BigDivRem(_, _, _, _)
BigDivRem(a, d, i, r) ==
    IF i = 0 THEN [q |-> <<>>, r |-> r]
    ELSE LET v == r * Limb + a[i]
             rest == BigDivRem(a, d, i - 1, v % d)
         IN  [q |-> Append(rest.q, v \div d), r |-> rest.r]

BigDiv(a, d) == BigNorm(BigDivRem(a, d, Len(a), 0).q)
BigMod(a, d) == BigDivRem(a, d, Len(a), 0).r

RECURSIVE IntOr(_, _)
IntOr(x, y) ==
    IF x = 0 THEN y
    ELSE IF y = 0 THEN x
    ELSE (IF x % 2 = 1 \/ y % 2 = 1 THEN 1 ELSE 0) + 2 * IntOr(x \div 2, y \div 2)

RECURSIVE IntAnd(_, _)
IntAnd(x, y) ==
    IF x = 0 \/ y = 0 THEN 0
    ELSE (IF x % 2 = 1 /\ y % 2 = 1 THEN 1 ELSE 0) + 2 * IntAnd(x \div 2, y \div 2)

BigOr(a, b) == [i \in 1..Max(Len(a), Len(b)) |-> IntOr(LimbAt(a, i), LimbAt(b, i))]
BigAnd(a, b) == BigNorm([i \in 1..Min(Len(a), Len(b)) |-> IntAnd(a[i], b[i])])

BigShl(a, n) ==
    IF a = <<>> THEN a
    ELSE [i \in 1..(n \div LimbBits) |-> 0] \o BigMulAdd(a, Pow2(n % LimbBits), 0)

BigShr(a, n) ==
    IF Len(a) <= n \div LimbBits THEN <<>>
    ELSE BigDiv(SubSeq(a, (n \div LimbBits) + 1, Len(a)), Pow2(n % LimbBits))

BigBitLen(a) ==
    IF a = <<>> THEN 0
    ELSE (Len(a) - 1) * LimbBits
         + (CHOOSE k \in 1..LimbBits : Pow2(k - 1) <= a[Len(a)] /\ a[Len(a)] < Pow2(k))

(***************************************************************************)
(* Decimal strings (bigInteger.toString, BigInt(string)) and JS numbers    *)
(***************************************************************************)
\* A decimal string is its sequence of digits, most significant first.
\* The digits are produced and consumed four at a time (base 10000).
RECURSIVE BigChunks(_)
BigChunks(a) ==
    IF a = <<>> THEN <<>>
    ELSE LET dr == BigDivRem(a, 10000, Len(a), 0)
         IN  Append(BigChunks(BigNorm(dr.q)), dr.r)

ChunkDigit(c, j) ==
    IF j = 0 THEN c \div 1000
    ELSE IF j = 1 THEN (c \div 100) % 10
    ELSE IF j = 2 THEN (c \div 10) % 10
    ELSE c % 10

\* bigInteger.toString(): no leading zeros, "0" for zero
toString(a) ==
    IF a = <<>> THEN <<0>>
    ELSE LET chunks == BigChunks(a)
             lead   == chunks[1]
             skip   == IF lead >= 1000 THEN 0 ELSE IF lead >= 100 THEN 1 ELSE IF lead >= 10 THEN 2 ELSE 3
         IN  [k \in 1..(4 * Len(chunks) - skip) |->
                 ChunkDigit(chunks[((k + skip - 1) \div 4) + 1], (k + skip - 1) % 4)]

\* the value of the digits s[i..j]
RECURSIVE DigitsValue(_, _, _, _)
DigitsValue(s, i, j, acc) ==
    IF i > j THEN acc ELSE DigitsValue(s, i + 1, j, acc * 10 + s[i])

RECURSIVE ParseDigits(_, _, _)
ParseDigits(s, i, acc) ==
    IF i > Len(s) THEN acc
    ELSE ParseDigits(s, i + 4, BigMulAdd(acc, 10000, DigitsValue(s, i, i + 3, 0)))

\* BigInt(string) for a string of decimal digits
BigIntOfString(s) ==
    LET head == ((Len(s) - 1) % 4) + 1
    IN  IF s = <<>> THEN <<>>
        ELSE ParseDigits(s, head + 1, BigFromInt(DigitsValue(s, 1, head, 0)))

\* A number is an IEEE-754 double holding a non-negative integer: a
\* significand below 2^53 and a binary exponent, [mant |-> m, exp |-> e]
\* standing for m * 2^e.
\* Number(bigint): the nearest double (53-bit significand, ties to even)
NumberOfBigInt(a) ==
    LET drop == BigBitLen(a) - 53
    IN  IF drop <= 0 THEN [mant |-> a, exp |-> 0]
        ELSE LET q    == BigShr(a, drop)
                 rem  == BigSub(a, BigShl(q, drop))
                 half == BigShl(<<1>>, drop - 1)
                 up   == BigLess(half, rem) \/ (rem = half /\ LimbAt(q, 1) % 2 = 1)
                 m    == IF up THEN BigAdd(q, <<1>>) ELSE q
             IN  IF BigBitLen(m) > 53 THEN [mant |-> BigShr(m, 1), exp |-> drop + 1]
                 ELSE [mant |-> m, exp |-> drop]

\* BigInt(number) for an integer-valued number
BigIntOfNumber(n) == BigShl(n.mant, n.exp)

\* number + number, both integer-valued: the exact sum, rounded
NumberAdd(x, y) == NumberOfBigInt(BigAdd(BigIntOfNumber(x), BigIntOfNumber(y)))

\* the largest time value of a Date, 8.64e15 ms
MaxDateMs == BigMulAdd(BigMulAdd(BigMulAdd(BigMulAdd(BigFromInt(864), 10000, 0), 10000, 0), 10000, 0), 10, 0)

\* new Date(ms): an Invalid Date beyond the representable range
newDate(ms) ==
    IF BigLeq(BigIntOfNumber(ms), MaxDateMs) THEN [valid |-> TRUE, time |-> ms]
    ELSE [valid |-> FALSE, time |-> NumberOfBigInt(<<>>)]

(***************************************************************************)
(* Program constants (src/index.ts)                                        *)
(***************************************************************************)
CUSTOM_EPOCH == 1451566800
LOGICAL_SHARD_ID_BITS == 10
SEQUENCE_BITS == 12
TIMESTAMP_SHIFT == SEQUENCE_BITS + LOGICAL_SHARD_ID_BITS
ShardShiftOfShardBits == LOGICAL_SHARD_ID_BITS
LOGICAL_SHARD_ID_SHIFT == SEQUENCE_BITS
MAX_SEQUENCE == Pow2(SEQUENCE_BITS) - 1
MAX_LOGICAL_SHARD_ID == Pow2(LOGICAL_SHARD_ID_BITS) - 1
MIN_LOGICAL_SHARD_ID == 1
\* process.env.KESTREL_SHARD_ID ?? '1'
KESTREL_SHARD_ID == 1
MAX_BATCH_SIZE == MAX_SEQUENCE + 1
ONE_MILLI_IN_MICRO_SECS == 1000
\* PSETEX lock_key 500
LOCK_EXPIRY_MS == 500

LockError == "Kestrel: Cannot generate ID, waiting for lock to expire."
ShardError == "Kestrel: Logical shard ID out of range"

(***************************************************************************)
(* The allocation script, executed atomically by the store                 *)
(***************************************************************************)
\* A key of the store is <<>> when absent and <<v>> when it holds v.
\* tonumber(redis.call('GET', key)) or -1
tonumberOr(key, default) == IF key = <<>> THEN default ELSE key[1]

\* an increment that forgets the value of the key
INCRBYFromZero(key, n) == n

\* INCRBY treats an absent key as 0
INCRBY(key, n) == (IF key = <<>> THEN 0 ELSE key[1]) + n

\* a lock test that never finds the key
EXISTSNever(ttl) == FALSE

\* redis.call('EXISTS', lock_key) == 1, for a lock with ttl microseconds to live
EXISTS(ttl) == ttl > 0

\* a reset that leaves the counter on the value it reached
SETValueKept(key, value) == key

\* redis.call('SET', sequence_key, '-1'): the key after the command
SETValue(key, value) == <<value>>

\* a wraparound that sets no lock
PSETEXNoLock(ms) == 0

\* redis.call('PSETEX', lock_key, ms, 'lock'): the life of the key in microseconds
PSETEX(ms) == ms * 1000

\* a range that starts on the last sequence of the previous range
startSequenceOffByOne(end_sequence, num_ids) == end_sequence - num_ids

\* local start_sequence = end_sequence - num_ids + 1
startSequence(end_sequence, num_ids) == end_sequence - num_ids + 1

\* a range check that forgets the lower bound
shardOutOfRangeNoMin(logical_shard_id, min_logical_shard_id, max_logical_shard_id) ==
    logical_shard_id < 0 \/ logical_shard_id > max_logical_shard_id

\* logical_shard_id < min_logical_shard_id or logical_shard_id > max_logical_shard_id
shardOutOfRange(logical_shard_id, min_logical_shard_id, max_logical_shard_id) ==
    logical_shard_id < min_logical_shard_id \/ logical_shard_id > max_logical_shard_id

\* a script that reads the clock before it writes
commandsTimeFirst(sequence_key, lockTtl, logical_shard_id_key, max_sequence, min_logical_shard_id, max_logical_shard_id, num_ids) ==
    IF EXISTS(lockTtl) THEN <<"EXISTS">>
    ELSE IF shardOutOfRange(tonumberOr(logical_shard_id_key, -1), min_logical_shard_id, max_logical_shard_id)
    THEN <<"EXISTS", "INCRBY", "GET">>
    ELSE IF INCRBY(sequence_key, num_ids) >= max_sequence
    THEN <<"EXISTS", "TIME", "INCRBY", "GET", "SET", "PSETEX">>
    ELSE <<"EXISTS", "TIME", "INCRBY", "GET">>

\* generateIds.lua: the commands the script sends to the store (redis.call),
\* in the order of their execution
commands(sequence_key, lockTtl, logical_shard_id_key, max_sequence, min_logical_shard_id, max_logical_shard_id, num_ids) ==
    IF EXISTS(lockTtl) THEN <<"EXISTS">>
    ELSE IF shardOutOfRange(tonumberOr(logical_shard_id_key, -1), min_logical_shard_id, max_logical_shard_id)
    THEN <<"EXISTS", "INCRBY", "GET">>
    ELSE IF INCRBY(sequence_key, num_ids) >= max_sequence
    THEN <<"EXISTS", "INCRBY", "GET", "SET", "PSETEX", "TIME">>
    ELSE <<"EXISTS", "INCRBY", "GET", "TIME">>

\* generateIds.lua: the store state after the script and its reply.
\* lockTtl is the remaining life of the lock key in microseconds, 0 when the
\* key does not exist; time is the reply of TIME, [sec, usec], read last.
generateIds(sequence_key, lockTtl, logical_shard_id_key, max_sequence, min_logical_shard_id, max_logical_shard_id, num_ids, time) ==
    IF EXISTS(lockTtl)
    THEN [sequence |-> sequence_key, lock |-> lockTtl,
          reply |-> [err |-> LockError]]
    ELSE LET end_sequence     == INCRBY(sequence_key, num_ids)
             start_sequence   == startSequence(end_sequence, num_ids)
             logical_shard_id == tonumberOr(logical_shard_id_key, -1)
         IN  IF shardOutOfRange(logical_shard_id, min_logical_shard_id, max_logical_shard_id)
             THEN [sequence |-> <<end_sequence>>, lock |-> lockTtl,
                   reply |-> [err |-> ShardError]]
             ELSE IF end_sequence >= max_sequence
             THEN [sequence |-> SETValue(<<end_sequence>>, -1),
                   lock |-> PSETEX(LOCK_EXPIRY_MS),
                   reply |-> [err |-> "", start |-> start_sequence, end |-> max_sequence,
                              shard |-> logical_shard_id, sec |-> time.sec, usec |-> time.usec]]
             ELSE [sequence |-> <<end_sequence>>, lock |-> lockTtl,
                   reply |-> [err |-> "", start |-> start_sequence, end |-> end_sequence,
                              shard |-> logical_shard_id, sec |-> time.sec, usec |-> time.usec]]

(***************************************************************************)
(* Kestrel.getIds, client side                                             *)
(***************************************************************************)
\* a batch of twice the count
batchOfTwice(count) == Min(2 * Abs(count), MAX_BATCH_SIZE)

\* Math.min(Math.abs(count), MAX_BATCH_SIZE)
batchOf(count) == Min(Abs(count), MAX_BATCH_SIZE)

\* Math.trunc(TIME_SECONDS * 1000 + TIME_MICROSECONDS / 1000)
timestampOf(sec, usec) ==
    BigMulAdd(sec, ONE_MILLI_IN_MICRO_SECS, usec \div ONE_MILLI_IN_MICRO_SECS)

customEpochMs == BigMulAdd(BigFromInt(CUSTOM_EPOCH), ONE_MILLI_IN_MICRO_SECS, 0)

\* the encoder of the earlier release: the epoch subtracted in seconds
idPrefixSecondsEpoch(timestamp, shard) ==
    BigOr(BigShl(BigSub(timestamp, BigFromInt(CUSTOM_EPOCH)), TIMESTAMP_SHIFT),
          BigShl(BigFromInt(shard), LOGICAL_SHARD_ID_SHIFT))

\* bigInteger(timestamp - customEpochMs).shiftLeft(22).or(bigInteger(shard).shiftLeft(12))
idPrefix(timestamp, shard) ==
    BigOr(BigShl(BigSub(timestamp, customEpochMs), TIMESTAMP_SHIFT),
          BigShl(BigFromInt(shard), LOGICAL_SHARD_ID_SHIFT))

\* BigInt(prefix.or(i).toString())
idOf(prefix, i) == BigIntOfString(toString(BigOr(prefix, BigFromInt(i))))

\* a loop that stops one short: i < END_SEQUENCE
buildIdsExclusive(reply) ==
    LET prefix == idPrefix(timestampOf(reply.sec, reply.usec), reply.shard)
    IN  [k \in 1..(reply.end - reply.start) |-> idOf(prefix, reply.start + k - 1)]

\* for (let i = START_SEQUENCE; i <= END_SEQUENCE; i++) ids.push(...)
buildIds(reply) ==
    LET prefix == idPrefix(timestampOf(reply.sec, reply.usec), reply.shard)
    IN  [k \in 1..(reply.end - reply.start + 1) |-> idOf(prefix, reply.start + k - 1)]

\* getId: const [id] = await this.getIds(); return id
\* the single identifier, <<id>>, or <<>> for undefined
getId(ids) == IF ids = <<>> THEN <<>> ELSE <<ids[1]>>

(***************************************************************************)
(* Kestrel.decodeIds / decodeId                                            *)
(***************************************************************************)
\* an input of decodeId is [type |-> "bigint" | "string" | "number", val |-> ...]
\* typeof id === 'bigint' ? id : BigInt(id)
\* a conversion that takes strings through a double: BigInt(Number(id))
idBigIntOfViaNumber(id) ==
    IF id.type = "bigint" THEN id.val
    ELSE IF id.type = "string" THEN BigIntOfNumber(NumberOfBigInt(BigIntOfString(id.val)))
    ELSE BigIntOfNumber(id.val)

idBigIntOf(id) ==
    IF id.type = "bigint" THEN id.val
    ELSE IF id.type = "string" THEN BigIntOfString(id.val)
    ELSE BigIntOfNumber(id.val)

\* a decoder that takes the shard field from the wrong bit position
decodeOneShardShift(id) ==
    LET idBigInt == idBigIntOf(id)
        sequence == BigToInt(BigAnd(idBigInt, BigFromInt(Pow2(SEQUENCE_BITS) - 1)))
        logicalShardId ==
            BigToInt(BigAnd(BigShr(idBigInt, LOGICAL_SHARD_ID_BITS), BigFromInt(Pow2(LOGICAL_SHARD_ID_BITS) - 1)))
        timestampSinceEpoch == NumberOfBigInt(BigShr(idBigInt, TIMESTAMP_SHIFT))
        timestampMs == NumberAdd(timestampSinceEpoch, NumberOfBigInt(customEpochMs))
    IN  [timestamp |-> timestampSinceEpoch, timestampMs |-> timestampMs,
         logicalShardId |-> logicalShardId, sequence |-> sequence,
         createdAt |-> newDate(timestampMs)]

\* ids.map(id => ...): the decoding of one identifier
decodeOne(id) ==
    LET idBigInt == idBigIntOf(id)
        sequenceMask == BigFromInt(Pow2(SEQUENCE_BITS) - 1)
        sequence == BigToInt(BigAnd(idBigInt, sequenceMask))
        logicalShardIdMask == BigFromInt(Pow2(LOGICAL_SHARD_ID_BITS) - 1)
        logicalShardId ==
            BigToInt(BigAnd(BigShr(idBigInt, LOGICAL_SHARD_ID_SHIFT), logicalShardIdMask))
        timestampSinceEpoch == NumberOfBigInt(BigShr(idBigInt, TIMESTAMP_SHIFT))
        timestampMs == NumberAdd(timestampSinceEpoch, NumberOfBigInt(customEpochMs))
        createdAt == newDate(timestampMs)
    IN  [timestamp |-> timestampSinceEpoch, timestampMs |-> timestampMs,
         logicalShardId |-> logicalShardId, sequence |-> sequence,
         createdAt |-> createdAt]

decodeIds(ids) == [k \in 1..Len(ids) |-> decodeOne(ids[k])]

\* const [decoded] = Kestrel.decodeIds([id]); return decoded
decodeId(id) == decodeIds(<<id>>)[1]

(***************************************************************************)
(* Script installation (#loadScript) and the role of a node (#init)        *)
(***************************************************************************)
\* the source of the allocation script, and of another script a node may hold
GENERATE_IDS_SCRIPT == "generateIds.lua"
OTHER_SCRIPT == "other.lua"

\* crypto.createHash('sha1').update(source).digest('hex')
sha1(source) == <<"sha1", source>>

\* node.call('SCRIPT', 'EXISTS', sha): the reply, [1] or [0]
SCRIPT_EXISTS(cache, sha) == <<IF sha \in cache THEN 1 ELSE 0>>

\* node.call('SCRIPT', 'LOAD', source): the script cache afterwards
SCRIPT_LOAD(cache, source) == cache \cup {sha1(source)}

\* a loader that uploads whatever the node reports
uploadsAlways(exists) == TRUE

\* #loadScript: if (exists[0] === 0)
uploads(exists) == exists[1] = 0

\* #loadScript run to its end without another command in between: the cache
\* of the node afterwards, the uploads made and the hash returned
loadScript(cache, source) ==
    LET scriptSHA == sha1(source)
        exists == SCRIPT_EXISTS(cache, scriptSHA)
    IN  IF uploads(exists)
        THEN [cache |-> SCRIPT_LOAD(cache, source), uploads |-> 1, sha |-> scriptSHA]
        ELSE [cache |-> cache, uploads |-> 0, sha |-> scriptSHA]

\* A line of an INFO reply is the sequence of its ':'-separated parts, and a
\* part the sequence of its tokens: words and whitespace characters.
Whitespace == {" ", "\r"}

\* String.prototype.trim
RECURSIVE trim(_)
trim(part) ==
    IF part = <<>> THEN part
    ELSE IF part[1] \in Whitespace THEN trim(Tail(part))
    ELSE IF part[Len(part)] \in Whitespace THEN trim(SubSeq(part, 1, Len(part) - 1))
    ELSE part

\* info.split('\n').filter(line => line && line.includes(':')).reduce(...):
\* the value of key in the map built from the lines, <<"undefined">> without
\* such a line; a later line replaces an earlier one
RECURSIVE infoMap(_, _)
infoMap(lines, key) ==
    IF lines = <<>> THEN <<"undefined">>
    ELSE LET line == lines[Len(lines)]
         IN  IF Len(line) >= 2 /\ trim(line[1]) = key
             THEN trim(line[2])
             ELSE infoMap(SubSeq(lines, 1, Len(lines) - 1), key)

\* a test of the role that compares the untrimmed value
isMasterUntrimmed(lines) ==
    \E k \in 1..Len(lines) : Len(lines[k]) >= 2 /\ lines[k][1] = <<"role">> /\ lines[k][2] = <<"master">>

\* infoMap['role'] === 'master'
isMaster(lines) == infoMap(lines, <<"role">>) = <<"master">>

(***************************************************************************)
(* Connection policies and error classification (constructor, initialize)  *)
(***************************************************************************)
\* An error message is the sequence of its space-separated parts; a part is
\* a word or a fixed phrase.
\* String.prototype.includes
includes(message, part) ==
    \E i \in 1..(Len(message) - Len(part) + 1) : SubSeq(message, i, i + Len(part) - 1) = part

\* RedisNonRetryableErrors
NOAUTH == <<"NOAUTH", "Authentication required">>
WRONGPASS == <<"WRONGPASS", "invalid username-password pair or user is disabled.">>
ENOTFOUND == <<"getaddrinfo", "ENOTFOUND", "invalid-host">>
ECONNREFUSED == <<"getaddrinfo", "ECONNREFUSED">>

\* a classification that looks for WRONGPASS first
errorMsgWrongpassFirst(message) ==
    IF includes(message, <<"WRONGPASS">>) THEN <<"Invalid username-password pair or user is disabled.">>
    ELSE IF includes(message, <<"NOAUTH">>) THEN <<"No authentication provided.">>
    ELSE IF includes(message, <<"getaddrinfo", "ENOTFOUND">>)
            \/ includes(message, <<"getaddrinfo", "EAI_AGAIN", "invalid-host">>) THEN <<"Invalid host.">>
    ELSE IF includes(message, <<"getaddrinfo", "ECONNREFUSED">>) THEN <<"Connection refused.">>
    ELSE message

\* initialize, catch: the classification of err.message
errorMsg(message) ==
    IF includes(message, <<"NOAUTH">>) THEN <<"No authentication provided.">>
    ELSE IF includes(message, <<"WRONGPASS">>) THEN <<"Invalid username-password pair or user is disabled.">>
    ELSE IF includes(message, <<"getaddrinfo", "ENOTFOUND">>)
            \/ includes(message, <<"getaddrinfo", "EAI_AGAIN", "invalid-host">>) THEN <<"Invalid host.">>
    ELSE IF includes(message, <<"getaddrinfo", "ECONNREFUSED">>) THEN <<"Connection refused.">>
    ELSE message

\* initialize, catch: throw new Error(`Failed to initialize: ${errorMsg}`);
\* err is [isError |-> TRUE, message |-> m] or a value that is not an Error
initializeError(err) ==
    IF err.isError THEN <<"Failed to initialize:">> \o errorMsg(err.message)
    ELSE <<"Failed to initialize:", "Unknown error:">> \o err.message

\* a strategy that gives up one attempt early: times >= 10
defaultRetryStrategyEarly(times) ==
    IF times >= 10 THEN [stop |-> TRUE, delay |-> 0, emits |-> <<"reconnectionAttemptsReached">>]
    ELSE [stop |-> FALSE, delay |-> Min(times * 100, 2000), emits |-> <<>>]

\* defaultRetryStrategy: the delay in ms, or null (stop) with the event it emits
defaultRetryStrategy(times) ==
    IF times > 10 THEN [stop |-> TRUE, delay |-> 0, emits |-> <<"reconnectionAttemptsReached">>]
    ELSE [stop |-> FALSE, delay |-> Min(times * 100, 2000), emits |-> <<>>]

\* defaultReconnectOnError: nonRetryableErrors[error.message] ?? true
defaultReconnectOnError(message) ==
    IF message \in {NOAUTH, WRONGPASS, ENOTFOUND, ECONNREFUSED} THEN FALSE ELSE TRUE

\* constructor: the topology chosen and the reconnect policy given to the client;
\* config is [clusterNodes |-> n, sentinels |-> n, retryStrategy |-> name or "undefined"]
clientOptions(config) ==
    LET retryStrategy == IF config.retryStrategy = "undefined" THEN "defaultRetryStrategy" ELSE config.retryStrategy
    IN  IF config.clusterNodes > 0
        THEN [topology |-> "cluster", slot |-> "clusterRetryStrategy", strategy |-> retryStrategy]
        ELSE IF config.sentinels > 0
        THEN [topology |-> "sentinel", slot |-> "sentinelRetryStrategy", strategy |-> retryStrategy]
        ELSE [topology |-> "single", slot |-> "retryStrategy", strategy |-> retryStrategy]

(***************************************************************************)
(* Bounds of the model                                                     *)
(***************************************************************************)
NumClients == 2
NumNodes == 2
MaxCalls == 2
MaxTicks == 1
MaxDecode == 2
MaxWords == 3
MaxAttempts == 12
MaxEvents == 1
MaxCloses == 2
MaxFailovers == 1

Clients == 1..NumClients
\* arguments of getIds: negative, zero, one, a small batch
Counts == {-2, 0, 1, 3}
\* arguments of getIds while the shard identity changes
ShardCounts == {1, 3}
\* arguments of getIds around the batch ceiling
WrapCounts == {50, 4096}
\* values of KESTREL_SHARD_ID a deployment may be configured with
ShardIds == {0, 1023, 1024}
\* clock advances in microseconds: within a millisecond, and past the lock expiry
TickSteps == {600, 600000}

\* identifier fields the decoder is given: timestamps since the custom epoch
\* (zero, the documented example, the present day, the last of the 41-bit
\* window) and (shard, sequence) pairs (all zero, the example, all ones)
CodecTimestamps ==
    {<<>>, BigFromInt(1000000), BigMulAdd(BigFromInt(34218360), 10000, 0), BigSub(BigShl(<<1>>, 41), <<1>>)}
CodecFields == {<<0, 0>>, <<42, 123>>, <<1023, 4095>>}
\* the identifier carrying the fields: timestamp * 2^22 + shard * 2^12 + sequence
CodecValue(t, f) ==
    BigAdd(BigMulAdd(BigMulAdd(t, 2048, 0), 2048, 0), BigFromInt(f[1] * 4096 + f[2]))
\* an identifier as a caller may hold it: a bigint, its decimal string, or a number
CodecForms(v) ==
    {[type |-> "bigint", val |-> v],
     [type |-> "string", val |-> toString(v)],
     [type |-> "number", val |-> NumberOfBigInt(v)]}
CodecIds == UNION {CodecForms(CodecValue(t, f)) : t \in CodecTimestamps, f \in CodecFields}
CodecLists == UNION {[1..n -> CodecIds] : n \in 1..MaxDecode}

\* parts of the error messages a connection attempt can fail with
Words ==
    {"NOAUTH", "Authentication required", "WRONGPASS",
     "invalid username-password pair or user is disabled.",
     "getaddrinfo", "ENOTFOUND", "EAI_AGAIN", "invalid-host", "ECONNREFUSED",
     "redis.internal", "connect ETIMEDOUT", "Failed to fetch Redis master info:"}
Messages == UNION {[1..n -> Words] : n \in 0..MaxWords}
\* configurations of the constructor: node lists empty or not, a strategy supplied or not
Configs ==
    [clusterNodes : {0, 3}, sentinels : {0, 3}, retryStrategy : {"undefined", "customRetryStrategy"}]
\* the applications of a policy function
PolicyInputs ==
    {[fn |-> "initialize", arg |-> [isError |-> TRUE, message |-> m]] : m \in Messages}
    \cup {[fn |-> "reconnectOnError", arg |-> m] : m \in Messages}
    \cup {[fn |-> "retryStrategy", arg |-> t] : t \in 1..MaxAttempts}
    \cup {[fn |-> "constructor", arg |-> c] : c \in Configs}

\* the last whole second whose first milliseconds lie inside the 41-bit window
WindowEndSec == BigAdd(BigFromInt(CUSTOM_EPOCH), BigDiv(BigShl(<<1>>, 41), 1000))
\* 2026-11-04T00:00:00Z
PresentSec == BigFromInt(1793750400)

VARIABLES sequence, lockTtl, shardId, bootSec, elapsed, ticks, pc, count, batch, reply, result, issued, log, calls, decIn, decOut,
          klisteners, trace, mode, handle, status, clisteners, outcome, oneshots, polIn, polOut,
          ipc, scripts, info, timer, jobs

storeVars == <<sequence, lockTtl, shardId, bootSec, elapsed, ticks>>
clientVars == <<pc, count, batch, reply, result, issued, log, calls>>
codecVars == <<decIn, decOut>>
\* listeners registered on each Kestrel instance, and the effects observed so far
facadeVars == <<klisteners, trace>>
\* the connection of the handle whose lifecycle is followed (the one of client 1)
\* the progress of #init after #initEvents, the script cache of every store
\* node, the INFO reply of the connected node, the pending timers of the
\* debounced topology handlers and the handleNodeAdded calls in flight
installVars == <<ipc, scripts, info, timer, jobs>>
lifeVars == <<mode, handle, status, clisteners, outcome, oneshots, installVars>>
\* argument and result of a connection policy function
policyVars == <<polIn, polOut>>
vars == <<sequence, lockTtl, shardId, bootSec, elapsed, ticks, pc, count, batch, reply, result, issued, log, calls, decIn, decOut,
          klisteners, trace, mode, handle, status, clisteners, outcome, oneshots, polIn, polOut,
          ipc, scripts, info, timer, jobs>>

NoReply == [err |-> "none"]
NoResult == [status |-> "none"]

\* redis.call('TIME'): seconds and microseconds of the store clock
TIME == [sec |-> BigAdd(bootSec, BigFromInt(elapsed \div 1000000)), usec |-> elapsed % 1000000]

InitClients ==
    /\ pc = [c \in Clients |-> "idle"]
    /\ count = [c \in Clients |-> 0]
    /\ batch = [c \in Clients |-> 0]
    /\ reply = [c \in Clients |-> NoReply]
    /\ result = [c \in Clients |-> NoResult]
    /\ issued = <<>>
    /\ log = <<>>
    /\ calls = 0

\* no decode call is in progress
InitDecode ==
    /\ decIn = <<>>
    /\ decOut = <<>>

\* the events of the underlying client that #initEvents forwards
ClientEvents ==
    {"connect", "connecting", "disconnected", "reconnecting", "reconnectionAttemptsReached",
     "wait", "ready", "close", "end", "error"}

\* every instance has an 'error' listener registered by its user; nothing observed yet
InitFacade ==
    /\ klisteners = [c \in Clients |-> {"error"}]
    /\ trace = <<>>

\* EventEmitter.on / EventEmitter.off on a table of listener counts
on(listeners, e) == [listeners EXCEPT ![e] = @ + 1]
off(listeners, e) == [listeners EXCEPT ![e] = IF @ > 0 THEN @ - 1 ELSE 0]

\* #initEvents: the nine forwarders and errorHandler attached to the client
attached == [e \in ClientEvents |-> 1]

\* a connection promise that leaves errorHandler attached
suspendNot(listeners) == listeners

\* #initEvents: the connection promise takes errorHandler off
suspend(listeners) == off(listeners, "error")

\* the forwarding listeners #initEvents leaves on the client once onReady has
\* put errorHandler back
forwarders == on(suspend(attached), "error")

\* the client as the constructor leaves it: no forwarder attached
unattached == [e \in ClientEvents |-> 0]

\* the store nodes; a single-node or sentinel client is connected to node 1
Nodes == 1..NumNodes

NoTimers == [added |-> <<>>, removed |-> <<>>]

\* #init is over, the script is in the cache of every node, no topology
\* event is being handled
InitInstalled ==
    /\ ipc = "none"
    /\ scripts = [n \in Nodes |-> {sha1(GENERATE_IDS_SCRIPT)}]
    /\ info = <<>>
    /\ timer = NoTimers
    /\ jobs = [n \in Nodes |-> <<>>]

\* the handle as Kestrel.initialize returns it in single-node mode
InitReady ==
    /\ mode = "single"
    /\ handle = "initialized"
    /\ status = "ready"
    /\ clisteners = forwarders
    /\ outcome = "none"
    /\ oneshots = {}
    /\ InitInstalled

\* no policy function is being applied
InitPolicy ==
    /\ polIn = <<>>
    /\ polOut = <<>>

\* The store outlives its clients: a client may find the sequence key absent
\* (fresh store) or left near the ceiling by earlier allocations, and the
\* shard identity absent or written by an earlier initialization.
Init ==
    /\ sequence \in {<<>>, <<4093>>}
    /\ lockTtl = 0
    /\ shardId \in {<<>>, <<1>>}
    /\ bootSec = PresentSec
    /\ elapsed = 0
    /\ ticks = 0
    /\ InitClients
    /\ InitDecode
    /\ InitFacade
    /\ InitReady
    /\ InitPolicy

\* Clients are interchangeable: they are numbered in the order of their first call.
hasCalled(c) == pc[c] # "idle" \/ result[c] # NoResult

\* getIds up to the await: clamp the count and send the script invocation
GetIdsCall(c, n) ==
    /\ pc[c] = "idle"
    /\ IF c = 1 THEN TRUE ELSE hasCalled(c - 1)
    /\ calls < MaxCalls
    /\ calls' = calls + 1
    /\ count' = [count EXCEPT ![c] = n]
    /\ batch' = [batch EXCEPT ![c] = batchOf(n)]
    /\ reply' = [reply EXCEPT ![c] = NoReply]
    /\ result' = [result EXCEPT ![c] = NoResult]
    /\ pc' = [pc EXCEPT ![c] = "called"]
    /\ UNCHANGED <<storeVars, issued, log, codecVars, facadeVars, lifeVars, policyVars>>

\* EventEmitter.emit: an 'error' event without a listener is thrown by emit
\* itself, as an unhandled-error Error, since the payload { error } is not an Error
emitThrows(listeners, event) == event = "error" /\ "error" \notin listeners

UnhandledError == "Unhandled error."

\* a client that encodes the shard identity of its configuration
resultOfConfiguredShard(r, listeners) ==
    IF r.err = ""
    THEN [status |-> "ok", ids |-> buildIds([r EXCEPT !.shard = KESTREL_SHARD_ID])]
    ELSE [status |-> "error",
          error |-> IF emitThrows(listeners, "error") THEN UnhandledError ELSE r.err,
          ids |-> <<>>]

\* the ids getIds builds from a successful reply, or the error it raises:
\* this.emit(ERROR, { error }); throw error
resultOf(r, listeners) ==
    IF r.err = ""
    THEN [status |-> "ok", ids |-> buildIds(r)]
    ELSE [status |-> "error",
          error |-> IF emitThrows(listeners, "error") THEN UnhandledError ELSE r.err,
          ids |-> <<>>]

\* the 'error' event getIds emits for a failed reply
emitOf(c, r, listeners) ==
    IF r.err = "" THEN <<>>
    ELSE <<[op |-> "emit", client |-> c, event |-> "error", payload |-> r.err,
            handled |-> ~emitThrows(listeners, "error")]>>

\* a getIds that calls the script again when it failed
settleRetry(r) == IF r.err = "" THEN "idle" ELSE "called"

\* return ids / throw error: the call is over, whatever the reply
settle(r) == "idle"

TransportFailure == "Connection is closed."

\* The store executes the script of client c atomically and the await of
\* getIds resolves with its reply: the rest of getIds touches no shared state.
GenerateIds(c) ==
    /\ pc[c] = "called"
    /\ LET r == generateIds(sequence, lockTtl, shardId, MAX_SEQUENCE, MIN_LOGICAL_SHARD_ID, MAX_LOGICAL_SHARD_ID, batch[c], TIME)
           res == resultOf(r.reply, klisteners[c])
       IN  /\ sequence' = r.sequence
           /\ lockTtl' = r.lock
           /\ reply' = [reply EXCEPT ![c] = r.reply]
           /\ result' = [result EXCEPT ![c] = res]
           /\ issued' = issued \o res.ids
           /\ log' = Append(log, [client |-> c, count |-> count[c], status |-> res.status, len |-> Len(res.ids), at |-> elapsed])
           /\ trace' = trace \o emitOf(c, r.reply, klisteners[c])
           /\ pc' = [pc EXCEPT ![c] = settle(r.reply)]
    /\ UNCHANGED <<shardId, bootSec, elapsed, ticks, count, batch, calls, codecVars, klisteners, lifeVars, policyVars>>

\* The connection fails while the invocation of client c is in flight: the
\* await rejects with the transport error; the script has run (ran) or not.
TransportError(c, ran) ==
    /\ pc[c] = "called"
    /\ LET r == generateIds(sequence, lockTtl, shardId, MAX_SEQUENCE, MIN_LOGICAL_SHARD_ID, MAX_LOGICAL_SHARD_ID, batch[c], TIME)
           lost == [err |-> TransportFailure]
           res == resultOf(lost, klisteners[c])
       IN  /\ sequence' = IF ran THEN r.sequence ELSE sequence
           /\ lockTtl' = IF ran THEN r.lock ELSE lockTtl
           /\ reply' = [reply EXCEPT ![c] = lost]
           /\ result' = [result EXCEPT ![c] = res]
           /\ log' = Append(log, [client |-> c, count |-> count[c], status |-> res.status, len |-> 0, at |-> elapsed])
           /\ trace' = trace \o emitOf(c, lost, klisteners[c])
           /\ pc' = [pc EXCEPT ![c] = settle(lost)]
    /\ UNCHANGED <<shardId, bootSec, elapsed, ticks, count, batch, calls, issued, codecVars, klisteners, lifeVars, policyVars>>

\* the store clock advances by d microseconds; the lock key lapses with it
Tick(d) ==
    /\ ticks < MaxTicks
    /\ ticks' = ticks + 1
    /\ elapsed' = elapsed + d
    /\ lockTtl' = Max(0, lockTtl - d)
    /\ UNCHANGED <<sequence, shardId, bootSec, clientVars, codecVars, facadeVars, lifeVars, policyVars>>

\* an initialization writes its configured shard identity: SET shard-id-key KESTREL_SHARD_ID
SetShardId(v) ==
    /\ shardId # <<v>>
    /\ shardId' = <<v>>
    /\ UNCHANGED <<sequence, lockTtl, bootSec, elapsed, ticks, clientVars, codecVars, facadeVars, lifeVars, policyVars>>

Next ==
    \/ \E c \in Clients, n \in Counts : GetIdsCall(c, n)
    \/ \E c \in Clients : GenerateIds(c)
    \/ \E d \in TickSteps : Tick(d)
    \/ \E v \in ShardIds : SetShardId(v)
    \/ \E c \in Clients, ran \in BOOLEAN : TransportError(c, ran)

Spec == Init /\ [][Next]_vars

TypeOK ==
    /\ lockTtl \in 0..PSETEX(LOCK_EXPIRY_MS)
    /\ \A c \in Clients : pc[c] \in {"idle", "called"}

(***************************************************************************)
(* Restrictions of Spec, each exploring some of its dimensions in depth    *)
(***************************************************************************)
\* Concurrent clients under an advancing clock, the shard identity left as
\* initialization wrote it.
InitIssue ==
    /\ sequence \in {<<>>, <<4093>>}
    /\ lockTtl = 0
    /\ shardId = <<1>>
    /\ bootSec = PresentSec
    /\ elapsed = 0
    /\ ticks = 0
    /\ InitClients
    /\ InitDecode
    /\ InitFacade
    /\ InitReady
    /\ InitPolicy

NextIssue ==
    \/ \E c \in Clients, n \in Counts : GetIdsCall(c, n)
    \/ \E c \in Clients : GenerateIds(c)
    \/ \E d \in TickSteps : Tick(d)

SpecIssue == InitIssue /\ [][NextIssue]_vars

\* One client whose store clock starts at the custom epoch, at the present
\* day or at the end of the 41-bit timestamp window.
InitClock ==
    /\ sequence \in {<<>>, <<4093>>}
    /\ lockTtl = 0
    /\ shardId \in {<<1>>, <<1023>>}
    /\ bootSec \in {BigFromInt(CUSTOM_EPOCH), PresentSec, WindowEndSec}
    /\ elapsed = 0
    /\ ticks = 0
    /\ InitClients
    /\ InitDecode
    /\ InitFacade
    /\ InitReady
    /\ InitPolicy

NextClock ==
    \/ \E n \in Counts : GetIdsCall(1, n)
    \/ GenerateIds(1)
    \/ \E d \in TickSteps : Tick(d)

SpecClock == InitClock /\ [][NextClock]_vars

\* One client while deployments rewrite the shard identity.
NextShard ==
    \/ \E n \in ShardCounts : GetIdsCall(1, n)
    \/ GenerateIds(1)
    \/ \E d \in TickSteps : Tick(d)
    \/ \E v \in ShardIds : SetShardId(v)

SpecShard == Init /\ [][NextShard]_vars

\* One client whose instance may lack an 'error' listener, with a shard
\* identity that may be misconfigured and a connection that may fail.
InitFacadeCalls ==
    /\ sequence \in {<<>>, <<4093>>}
    /\ lockTtl = 0
    /\ shardId \in {<<1>>, <<0>>}
    /\ bootSec = PresentSec
    /\ elapsed = 0
    /\ ticks = 0
    /\ InitClients
    /\ InitDecode
    /\ klisteners \in {[c \in Clients |-> l] : l \in {{}, {"error"}}}
    /\ trace = <<>>
    /\ InitReady
    /\ InitPolicy

NextFacade ==
    \/ \E n \in ShardCounts : GetIdsCall(1, n)
    \/ GenerateIds(1)
    \/ \E ran \in BOOLEAN : TransportError(1, ran)
    \/ \E d \in TickSteps : Tick(d)

SpecFacade == InitFacadeCalls /\ [][NextFacade]_vars

\* The decoder alone, a pure function of its argument: the store and the
\* clients stay as constructed.
InitCodec ==
    /\ sequence = <<>>
    /\ lockTtl = 0
    /\ shardId = <<1>>
    /\ bootSec = PresentSec
    /\ elapsed = 0
    /\ ticks = 0
    /\ InitClients
    /\ decIn \in CodecLists
    /\ decOut = <<>>
    /\ InitFacade
    /\ InitReady
    /\ InitPolicy

\* Kestrel.decodeIds(decIn)
DecodeIds ==
    /\ decOut = <<>>
    /\ decOut' = decodeIds(decIn)
    /\ UNCHANGED <<storeVars, clientVars, decIn, facadeVars, lifeVars, policyVars>>

NextCodec == DecodeIds

SpecCodec == InitCodec /\ [][NextCodec]_vars

\* an entry of the trace for a step that is not an emission
step(op, payload) ==
    [op |-> op, client |-> 1, event |-> "", payload |-> payload, handled |-> TRUE]

\* this.emit(event, payload) on the instance, as an entry of the trace
emit(listeners, event, payload) ==
    [op |-> "emit", client |-> 1, event |-> event, payload |-> payload,
     handled |-> event \in listeners]

occurrences(op) == Cardinality({k \in 1..Len(trace) : trace[k].op = op})

\* the names ioredis gives to the states of a connection
Statuses == {"wait", "connecting", "connect", "ready", "reconnecting", "close", "end"}

\* The underlying client emits event e: every forwarder attached for e emits
\* on the instance; a status event is emitted as the client enters the status.
ClientEvent(e) ==
    /\ occurrences("clientEvent") < MaxEvents
    /\ trace' = trace \o <<[step("clientEvent", "") EXCEPT !.event = e]>>
                      \o [k \in 1..clisteners[e] |->
                            emit(klisteners[1], e, IF e = "error" THEN "error" ELSE "Redis " \o e)]
    /\ status' = IF e \in Statuses THEN e ELSE status
    /\ UNCHANGED <<storeVars, clientVars, codecVars, klisteners, mode, handle, clisteners,
                   outcome, oneshots, installVars, policyVars>>

\* kestrel.on(e, listener)
On(e) ==
    /\ e \notin klisteners[1]
    /\ klisteners' = [klisteners EXCEPT ![1] = @ \cup {e}]
    /\ UNCHANGED <<storeVars, clientVars, codecVars, trace, lifeVars, policyVars>>

\* a close that disconnects only when the quit did not raise
disconnectUnlessRaised(quit) ==
    IF quit = "raises" THEN <<>> ELSE <<step("disconnect", "")>>

\* close, finally: client.disconnect()
disconnect(quit) == <<step("disconnect", "")>>

\* close(): the steps it takes, in order, and whether the call raises; quit
\* is the outcome of client.quit() were it awaited
closeSteps(h, st, listeners, quit) ==
    IF h = "closed"
    THEN [steps |-> <<emit(listeners, "error", "Redis client is not initialized.")>>,
          raises |-> emitThrows(listeners, "error")]
    ELSE LET quits == st \in {"ready", "connect"}
         IN  [steps |-> <<step("client.removeAllListeners", "")>>
                        \o (IF quits THEN <<step("quit", quit)>> ELSE <<>>)
                        \o (IF quits /\ quit = "raises"
                            THEN <<emit(listeners, "error", "quit failed")>> ELSE <<>>)
                        \o disconnect(IF quits THEN quit ELSE "ok")
                        \o <<emit(listeners, "disconnected", "Redis client disconnected."),
                             step("removeAllListeners", "")>>,
              raises |-> quits /\ quit = "raises" /\ emitThrows(listeners, "error")]

\* await kestrel.close()
Close(quit) ==
    /\ occurrences("close") < MaxCloses
    /\ LET r == closeSteps(handle, status, klisteners[1], quit)
       IN  /\ trace' = trace \o <<step("close", "")>> \o r.steps
           /\ outcome' = IF r.raises THEN "rejected" ELSE "resolved"
    /\ IF handle = "closed"
       THEN UNCHANGED <<handle, status, clisteners, klisteners, oneshots>>
       ELSE /\ handle' = "closed"
            /\ status' = "end"
            /\ clisteners' = unattached
            /\ oneshots' = {}
            /\ klisteners' = [klisteners EXCEPT ![1] = {}]
    /\ UNCHANGED <<storeVars, clientVars, codecVars, mode, installVars, policyVars>>

\* One handle, constructed or initialized, its listeners, the events of its
\* client and its closing.
InitLife ==
    /\ sequence = <<>>
    /\ lockTtl = 0
    /\ shardId = <<1>>
    /\ bootSec = PresentSec
    /\ elapsed = 0
    /\ ticks = 0
    /\ InitClients
    /\ InitDecode
    /\ InitPolicy
    /\ klisteners \in {[c \in Clients |-> l] : l \in {{}, {"error"}}}
    /\ trace = <<>>
    /\ mode = "single"
    /\ handle \in {"constructed", "initialized"}
    /\ status = IF handle = "constructed" THEN "wait" ELSE "ready"
    /\ clisteners = IF handle = "constructed" THEN unattached ELSE forwarders
    /\ outcome = "none"
    /\ oneshots = {}
    /\ InitInstalled

NextLife ==
    \/ \E e \in ClientEvents : ClientEvent(e)
    \/ \E e \in {"error", "disconnected"} : On(e)
    \/ \E quit \in {"ok", "raises"} : Close(quit)

SpecLife == InitLife /\ [][NextLife]_vars

\* the emissions of the forwarders attached for event e
forwarded(e) ==
    [k \in 1..clisteners[e] |-> emit(klisteners[1], e, "Redis " \o e)]

\* the events of a client that loses its connection and connects again
reconnection == <<"close", "reconnecting", "connect", "ready">>

\* The sentinels promote a replica and the client reconnects to it. Replication
\* is asynchronous: the new primary holds the keys of the old one (lost =
\* FALSE) or has never received them (lost = TRUE). The listeners #initEvents
\* attached forward the events of the reconnection; #init is not among them.
Failover(lost) ==
    /\ mode = "sentinel"
    /\ handle = "initialized"
    /\ occurrences("failover") < MaxFailovers
    /\ sequence' = IF lost THEN <<>> ELSE sequence
    /\ lockTtl' = IF lost THEN 0 ELSE lockTtl
    /\ shardId' = IF lost THEN <<>> ELSE shardId
    /\ trace' = trace \o <<step("failover", IF lost THEN "lost" ELSE "kept")>>
                      \o forwarded(reconnection[1]) \o forwarded(reconnection[2])
                      \o forwarded(reconnection[3]) \o forwarded(reconnection[4])
    /\ status' = "ready"
    /\ UNCHANGED <<bootSec, elapsed, ticks, clientVars, codecVars, klisteners, mode, handle,
                   clisteners, outcome, oneshots, installVars, policyVars>>

\* One handle in sentinel mode, initialized against a primary (role master:
\* the script is installed and the shard identity written), across failovers.
InitFailover ==
    /\ sequence \in {<<>>, <<4093>>}
    /\ lockTtl = 0
    /\ shardId = <<KESTREL_SHARD_ID>>
    /\ bootSec = PresentSec
    /\ elapsed = 0
    /\ ticks = 0
    /\ InitClients
    /\ InitDecode
    /\ InitFacade
    /\ InitPolicy
    /\ mode = "sentinel"
    /\ handle = "initialized"
    /\ status = "ready"
    /\ clisteners = forwarders
    /\ outcome = "none"
    /\ oneshots = {}
    /\ InitInstalled

NextFailover ==
    \/ \E n \in ShardCounts : GetIdsCall(1, n)
    \/ GenerateIds(1)
    \/ \E d \in TickSteps : Tick(d)
    \/ \E lost \in BOOLEAN : Failover(lost)

SpecFailover == InitFailover /\ [][NextFailover]_vars

\* cleanup that leaves the one-shot observers on the client
cleanupNot(observers) == observers

\* #initEvents, cleanup: off('ready', onReady) and off('error', onError)
cleanup(observers) == {}

\* the promise of #initEvents has been resolved or rejected
settled == occurrences("resolve") + occurrences("reject") > 0

\* The client emits 'ready' or 'error' while the promise of #initEvents waits
\* for the first outcome. The listeners run in the order of their attachment:
\* the forwarders, then the one-shot observer. onReady: cleanup, errorHandler
\* attached again, resolve. onError: cleanup, errorHandler attached again,
\* disconnect, reject(error). A listener attached during an emission is not
\* called for that event.
ConnectEvent(e) ==
    /\ handle = "connecting"
    /\ IF e = "ready"
       THEN /\ "onReady" \in oneshots
            /\ trace' = trace \o <<[step("initialEvent", "") EXCEPT !.event = e]>>
                              \o forwarded(e)
                              \o (IF settled THEN <<>> ELSE <<step("resolve", "")>>)
            /\ handle' = "initialized"
       ELSE /\ "onError" \in oneshots
            /\ trace' = trace \o <<[step("initialEvent", "") EXCEPT !.event = e]>>
                              \o forwarded(e)
                              \o <<step("disconnect", "")>>
                              \o (IF settled THEN <<>> ELSE <<step("reject", "error event")>>)
            /\ handle' = "failed"
    /\ oneshots' = cleanup(oneshots)
    /\ clisteners' = on(clisteners, "error")
    /\ status' = IF e \in Statuses THEN e ELSE status
    /\ UNCHANGED <<storeVars, clientVars, codecVars, klisteners, mode, outcome, installVars, policyVars>>

\* The promise of client.connect() is rejected: connect().catch(onError) calls
\* onError, whether or not an 'error' event has called it before. connect()
\* is called only from a status other than ready, connecting, connect and
\* reconnecting, and is not rejected once the client has been ready.
ConnectRejects ==
    /\ handle \in {"connecting", "failed"}
    /\ mode # "cluster"
    /\ occurrences("connectRejected") = 0
    /\ trace' = trace \o <<step("connectRejected", ""), step("disconnect", "")>>
                      \o (IF settled THEN <<>> ELSE <<step("reject", "connect rejected")>>)
    /\ handle' = "failed"
    /\ oneshots' = cleanup(oneshots)
    /\ clisteners' = on(clisteners, "error")
    /\ UNCHANGED <<storeVars, clientVars, codecVars, klisteners, mode, status, outcome, installVars, policyVars>>

\* A handle inside Kestrel.initialize, waiting in #initEvents for the first
\* outcome of the connection: the forwarders are attached, errorHandler is
\* taken off, onReady and onError are attached. Nobody holds the instance
\* yet, so it has no listeners. A cluster client connects on construction;
\* the others are lazy and connect() is called.
InitConnect ==
    /\ sequence = <<>>
    /\ lockTtl = 0
    /\ shardId = <<>>
    /\ bootSec = PresentSec
    /\ elapsed = 0
    /\ ticks = 0
    /\ InitClients
    /\ InitDecode
    /\ InitPolicy
    /\ klisteners = [c \in Clients |-> {}]
    /\ trace = <<>>
    /\ mode \in {"single", "sentinel", "cluster"}
    /\ handle = "connecting"
    /\ status = IF mode = "cluster" THEN "connecting" ELSE "wait"
    /\ clisteners = suspend(attached)
    /\ outcome = "none"
    /\ oneshots = {"onReady", "onError"}
    /\ InitInstalled

NextConnect ==
    \/ \E e \in {"ready", "error"} : ConnectEvent(e)
    \/ ConnectRejects
    \/ \E e \in ClientEvents : (handle # "connecting" \/ e \notin {"ready", "error"}) /\ ClientEvent(e)
    \/ \E e \in {"error", "disconnected"} : handle = "initialized" /\ On(e)

SpecConnect == InitConnect /\ [][NextConnect]_vars

\* The connection policies and the error classification of initialize, each
\* a function of its argument.
InitPolicies ==
    /\ sequence = <<>>
    /\ lockTtl = 0
    /\ shardId = <<1>>
    /\ bootSec = PresentSec
    /\ elapsed = 0
    /\ ticks = 0
    /\ InitClients
    /\ InitDecode
    /\ InitFacade
    /\ InitReady
    /\ polIn \in {<<i>> : i \in PolicyInputs}
    /\ polOut = <<>>

\* Kestrel.initialize rejects: the catch block classifies the error
InitializeFails ==
    /\ polOut = <<>>
    /\ polIn[1].fn = "initialize"
    /\ polOut' = <<initializeError(polIn[1].arg)>>
    /\ UNCHANGED <<storeVars, clientVars, codecVars, facadeVars, lifeVars, polIn>>

\* the client asks the default strategy for the delay before reconnection attempt times
RetryStrategy ==
    /\ polOut = <<>>
    /\ polIn[1].fn = "retryStrategy"
    /\ LET r == defaultRetryStrategy(polIn[1].arg)
       IN  /\ polOut' = <<r>>
           /\ trace' = trace \o [k \in 1..Len(r.emits) |->
                                    [op |-> "emit", client |-> 1, event |-> r.emits[k],
                                     payload |-> "Max Redis reconnection attempts reached",
                                     handled |-> ~emitThrows(klisteners[1], r.emits[k])]]
    /\ UNCHANGED <<storeVars, clientVars, codecVars, klisteners, lifeVars, polIn>>

\* the client asks the default predicate whether to reconnect after an error reply
ReconnectOnError ==
    /\ polOut = <<>>
    /\ polIn[1].fn = "reconnectOnError"
    /\ polOut' = <<defaultReconnectOnError(polIn[1].arg)>>
    /\ UNCHANGED <<storeVars, clientVars, codecVars, facadeVars, lifeVars, polIn>>

\* new Kestrel(config): the options the client is created with
Construct ==
    /\ polOut = <<>>
    /\ polIn[1].fn = "constructor"
    /\ polOut' = <<clientOptions(polIn[1].arg)>>
    /\ UNCHANGED <<storeVars, clientVars, codecVars, facadeVars, lifeVars, polIn>>

NextPolicies ==
    \/ InitializeFails
    \/ RetryStrategy
    \/ ReconnectOnError
    \/ Construct

SpecPolicies == InitPolicies /\ [][NextPolicies]_vars

\* Concurrent clients around a wraparound: the counter starts three short of
\* the maximum, so that a batch of three sets the lock.
InitLock ==
    /\ sequence = <<4093>>
    /\ lockTtl = 0
    /\ shardId = <<KESTREL_SHARD_ID>>
    /\ bootSec = PresentSec
    /\ elapsed = 0
    /\ ticks = 0
    /\ InitClients
    /\ InitDecode
    /\ InitFacade
    /\ InitReady
    /\ InitPolicy

NextLock ==
    \/ \E c \in Clients, n \in ShardCounts : GetIdsCall(c, n)
    \/ \E c \in Clients : GenerateIds(c)
    \/ \E d \in TickSteps : Tick(d)

SpecLock == InitLock /\ [][NextLock]_vars

\* One client right before a wraparound (the counter three short of the
\* maximum) or right after one: the counter is reset, the lock has its whole
\* life ahead and the last identifier issued carries sequence number 4095.
\* The shard identity may be rewritten meanwhile.
InitReset ==
    /\ sequence \in {<<4093>>, <<-1>>}
    /\ lockTtl = IF sequence = <<-1>> THEN PSETEX(LOCK_EXPIRY_MS) ELSE 0
    /\ shardId = <<KESTREL_SHARD_ID>>
    /\ bootSec = PresentSec
    /\ elapsed = 0
    /\ ticks = 0
    /\ pc = [c \in Clients |-> "idle"]
    /\ count = [c \in Clients |-> 0]
    /\ batch = [c \in Clients |-> 0]
    /\ reply = [c \in Clients |-> NoReply]
    /\ result = [c \in Clients |-> NoResult]
    /\ issued = IF sequence = <<-1>>
                THEN <<idOf(idPrefix(timestampOf(TIME.sec, TIME.usec), KESTREL_SHARD_ID), MAX_SEQUENCE)>>
                ELSE <<>>
    /\ log = <<>>
    /\ calls = 0
    /\ InitDecode
    /\ InitFacade
    /\ InitReady
    /\ InitPolicy

NextReset ==
    \/ \E n \in ShardCounts : GetIdsCall(1, n)
    \/ GenerateIds(1)
    \/ \E d \in {PSETEX(LOCK_EXPIRY_MS) \div 2, PSETEX(LOCK_EXPIRY_MS)} : Tick(d)
    \/ \E v \in ShardIds : SetShardId(v)

SpecReset == InitReset /\ [][NextReset]_vars

\* a key that expires as soon as the clock moves
lapseAtOnce(ttl, d) == 0

\* the life left to a key set with PSETEX after d more microseconds
lapse(ttl, d) == Max(0, ttl - d)

\* While the lock key exists the store clock goes on and the key lapses.
Elapse(d) ==
    /\ lockTtl > 0
    /\ elapsed' = elapsed + d
    /\ lockTtl' = lapse(lockTtl, d)
    /\ UNCHANGED <<sequence, shardId, bootSec, ticks, clientVars, codecVars, facadeVars, lifeVars, policyVars>>

\* the steps of the store clock while the lock exists: half its life, all of it
LapseSteps == {PSETEX(LOCK_EXPIRY_MS) \div 2, PSETEX(LOCK_EXPIRY_MS)}

NextLapse ==
    \/ \E c \in Clients, n \in ShardCounts : GetIdsCall(c, n)
    \/ \E c \in Clients : GenerateIds(c)
    \/ \E d \in LapseSteps : Elapse(d)

\* Concurrent clients around a wraparound, under a store clock that keeps
\* advancing.
SpecLapse == InitLock /\ [][NextLapse]_vars /\ WF_vars(\E d \in LapseSteps : Elapse(d))

\* One client issuing large batches across the sequence ceiling: a fresh
\* store as the test suite finds it, one whose counter was reset by an
\* earlier wraparound, or one close to the ceiling; the shard identity
\* written by initialization.
InitWrap ==
    /\ sequence \in {<<>>, <<-1>>, <<4000>>}
    /\ lockTtl = 0
    /\ shardId = <<1>>
    /\ bootSec = PresentSec
    /\ elapsed = 0
    /\ ticks = 0
    /\ InitClients
    /\ InitDecode
    /\ InitFacade
    /\ InitReady
    /\ InitPolicy

NextWrap ==
    \/ \E n \in WrapCounts : GetIdsCall(1, n)
    \/ GenerateIds(1)
    \/ Tick(PSETEX(LOCK_EXPIRY_MS))

SpecWrap == InitWrap /\ [][NextWrap]_vars

(***************************************************************************)
(* Properties                                                              *)
(***************************************************************************)
\* the (timestamp, shard, sequence) fields an identifier carries
tripleOf(id) ==
    LET d == decodeId([type |-> "bigint", val |-> id])
    IN  <<d.timestamp, d.logicalShardId, d.sequence>>

\* C1: no two identifiers returned by successful getIds calls, of the same
\* call or of different calls or clients, carry the same (timestamp, shard,
\* sequence) triple, whatever the order in which the store runs the scripts.
\* (as many distinct triples as identifiers issued)
C1_UniqueTriples ==
    Cardinality({tripleOf(issued[k]) : k \in 1..Len(issued)}) = Len(issued)

\* two clients were both served identifiers at the same instant of the store clock
C1_Witness ==
    \E i, j \in 1..Len(log) :
        /\ i < j
        /\ log[i].client # log[j].client
        /\ log[i].status = "ok" /\ log[i].len > 0
        /\ log[j].status = "ok" /\ log[j].len > 0
        /\ log[i].at = log[j].at

\* C2: with a fixed valid shard identity, the identifiers of successive
\* getIds calls, concatenated in issuance order, are strictly increasing as
\* integers (hence without duplicate), also across a wraparound.
C2_StrictlyIncreasing ==
    \A k \in 1..(Len(issued) - 1) : BigLess(issued[k], issued[k + 1])

\* more than 4096 identifiers were issued: the counter wrapped at least once
C2_Witness == Len(issued) > MAX_BATCH_SIZE

\* the client c receives the reply of its script in this step
served(c) == pc[c] = "called" /\ pc'[c] = "idle"

\* the sequence counter as INCRBY reads it
counterValue == IF sequence = <<>> THEN 0 ELSE sequence[1]

\* a successful getIds(4096) was followed at once by a getIds(50)
C3_Pair(k) ==
    /\ log[k].count = 4096
    /\ log[k + 1].count = 50
    /\ log[k + 1].at = log[k].at

\* C3: a getIds(4096) immediately followed by a getIds(50) both succeed
\* without a lock error and each returns exactly the number of identifiers
\* requested, 4146 in total.
C3_NoLockout ==
    \A k \in 1..(Len(log) - 1) :
        C3_Pair(k) =>
            /\ log[k].status = "ok" /\ log[k].len = 4096
            /\ log[k + 1].status = "ok" /\ log[k + 1].len = 50

\* the decoded fields of the identifiers of a result
fieldsOf(ids) == [k \in 1..Len(ids) |-> decodeId([type |-> "bigint", val |-> ids[k]])]

C4_Applies(c) ==
    /\ served(c)
    /\ count[c] \in 1..4095
    /\ lockTtl = 0
    /\ shardId # <<>>
    /\ shardId[1] \in 1..1023
    /\ counterValue + count[c] < 4095

C4_Holds(c) ==
    /\ result'[c].status = "ok"
    /\ Len(result'[c].ids) = count[c]
    /\ LET d == fieldsOf(result'[c].ids)
       IN  \A k \in 1..(Len(d) - 1) :
               /\ d[k + 1].sequence = d[k].sequence + 1
               /\ d[k + 1].logicalShardId = d[k].logicalShardId
               /\ d[k + 1].timestamp = d[k].timestamp

\* C4: a getIds(n) call with 1 <= n <= 4095 whose script increments the
\* counter to less than 4095 under a valid shard identity returns exactly n
\* identifiers, their sequence fields increasing by 1 and their shard and
\* timestamp fields identical.
C4_ExactBatch == [][\A c \in Clients : C4_Applies(c) => C4_Holds(c)]_vars

\* a call for three identifiers was served below the ceiling
C4_Witness ==
    \E c \in Clients :
        /\ result[c].status = "ok"
        /\ count[c] = 3
        /\ Len(result[c].ids) = 3
        /\ reply[c].end < 4095

C5_Applies(c) == served(c) /\ shardId \in {<<0>>, <<1024>>}

\* C5 as stated: while the stored shard identity is 0 or 1024 every getIds
\* call fails with the shard-out-of-range error and returns no identifier,
\* whatever the state of the counter and of the lock.
C5_AlwaysShardError ==
    [][\A c \in Clients :
          C5_Applies(c) =>
              /\ result'[c].status = "error"
              /\ result'[c].error = "Kestrel: Logical shard ID out of range"
              /\ result'[c].ids = <<>>]_vars

\* C5: while the stored shard identity is 0 or 1024 every getIds call fails
\* and returns no identifier: with the shard-out-of-range error when no lock
\* exists, with the lock error while the wraparound lock exists.
C5_ShardOrLockError ==
    [][\A c \in Clients :
          C5_Applies(c) =>
              /\ result'[c].status = "error"
              /\ result'[c].ids = <<>>
              /\ issued' = issued
              /\ result'[c].error =
                     IF lockTtl > 0 THEN "Kestrel: Cannot generate ID, waiting for lock to expire."
                     ELSE "Kestrel: Logical shard ID out of range"]_vars

\* a call was refused for its shard identity, 0 or 1024, after an earlier
\* call had been served
C5_Witness ==
    /\ shardId \in {<<0>>, <<1024>>}
    /\ result[1].status = "error"
    /\ result[1].error = "Kestrel: Logical shard ID out of range"
    /\ Len(log) = 2

\* the store time of a reply in milliseconds: seconds * 1000 + floor(microseconds / 1000)
storeMs(r) == BigAdd(BigMulAdd(r.sec, 1000, 0), BigFromInt(r.usec \div 1000))

\* 1451566800000
EpochMs == BigMulAdd(BigMulAdd(BigFromInt(14515), 10000, 6680), 10000, 0)

KnownId == BigMulAdd(BigMulAdd(BigMulAdd(<<4>>, 10000, 1943), 10000, 417), 10000, 2155)

\* 1451567800000
KnownMs == BigMulAdd(BigMulAdd(BigFromInt(14515), 10000, 6780), 10000, 0)

C7_Fields(v, d) ==
    LET high == BigDiv(v, 4096)
        t    == BigDiv(high, 1024)
    IN  /\ d.sequence = BigMod(v, 4096)
        /\ d.logicalShardId = BigMod(high, 1024)
        /\ d.timestamp = NumberOfBigInt(t)
        /\ d.timestampMs = NumberOfBigInt(BigAdd(t, EpochMs))
        /\ d.createdAt.valid
        /\ d.createdAt.time = d.timestampMs

C7_Known(d) ==
    /\ BigIntOfNumber(d.timestamp) = BigFromInt(1000000)
    /\ d.logicalShardId = 42
    /\ d.sequence = 123
    /\ BigIntOfNumber(d.timestampMs) = KnownMs

\* C7: decodeId computes sequence = id & 0xFFF, logicalShardId = (id >> 12)
\* & 0x3FF, timestamp = id >> 22, timestampMs = timestamp + 1451566800000
\* and createdAt the instant timestampMs; 4194304172155 decodes to timestamp
\* 1000000, shard 42, sequence 123, timestampMs 1451567800000; and
\* decodeIds(ids)[k] equals decodeId(ids[k]) at every position k.
C7_DecodeArithmetic ==
    /\ Len(decOut) \in {0, Len(decIn)}
    /\ \A k \in 1..Len(decOut) :
           /\ decOut[k] = decodeId(decIn[k])
           /\ decIn[k].type = "bigint" => C7_Fields(decIn[k].val, decOut[k])
           /\ (decIn[k].type = "bigint" /\ decIn[k].val = KnownId) => C7_Known(decOut[k])

\* the documented identifier was decoded at the second position of a list
C7_Witness ==
    /\ Len(decOut) = 2
    /\ decIn[2].type = "bigint"
    /\ decIn[2].val = KnownId
    /\ decIn[1].type = "bigint"
    /\ decIn[1].val # KnownId

\* 2^53 - 1
MaxSafeInteger == BigSub(BigShl(<<1>>, 53), <<1>>)

\* y is the identifier x (a bigint) in another form
C8_SameId(x, y) ==
    /\ x.type = "bigint"
    /\ \/ y.type = "bigint" /\ y.val = x.val
       \/ y.type = "string" /\ y.val = toString(x.val)
       \/ /\ y.type = "number"
          /\ BigLeq(x.val, MaxSafeInteger)
          /\ y.val = NumberOfBigInt(x.val)

\* C8: decodeId gives identical timestamp, logicalShardId and sequence
\* whether an identifier is passed as a bigint, as its decimal string or,
\* when at most Number.MAX_SAFE_INTEGER, as a number; decoding the same
\* identifier twice gives equal results.
C8_SameAcrossTypes ==
    \A i, j \in 1..Len(decOut) :
        C8_SameId(decIn[i], decIn[j]) =>
            /\ decOut[i].timestamp = decOut[j].timestamp
            /\ decOut[i].logicalShardId = decOut[j].logicalShardId
            /\ decOut[i].sequence = decOut[j].sequence
            /\ decIn[i].type = decIn[j].type => decOut[i] = decOut[j]

\* an identifier above Number.MAX_SAFE_INTEGER was decoded as a bigint and
\* as its decimal string
C8_Witness ==
    /\ Len(decOut) = 2
    /\ decIn[1].type = "bigint"
    /\ BigLess(MaxSafeInteger, decIn[1].val)
    /\ decIn[2].type = "string"
    /\ decIn[2].val = toString(decIn[1].val)

C10_BatchClamped ==
    \A c \in Clients :
        /\ pc[c] = "called" => batch[c] \in 1..4096
        /\ result[c].status = "ok" =>
               LET d == fieldsOf(result[c].ids)
               IN  \A k \in 1..(Len(d) - 1) : d[k].sequence < d[k + 1].sequence

\* C11: whenever getIds(n) with n >= 1 resolves, the returned list is not
\* empty; getIds(1) resolves to exactly one identifier and getId() to that
\* identifier, never undefined, also after earlier attempts failed.
C11_NeverEmpty ==
    \A c \in Clients :
        (result[c].status = "ok" /\ count[c] >= 1) =>
            /\ Len(result[c].ids) >= 1
            /\ count[c] = 1 => (Len(result[c].ids) = 1 /\ getId(result[c].ids) # <<>>)

\* the getIds call of client c ends with an error in this step
failed(c) == pc[c] = "called" /\ pc'[c] = "idle" /\ result'[c].status = "error"

\* C12: whenever the script invocation fails (lock active, shard out of
\* range, transport error) getIds emits one 'error' event carrying the
\* error and raises to its caller an error whose message is the store's
\* error text, returning no identifier, also when the instance has no
\* 'error' listener.
C12_BothChannels ==
    [][\A c \in Clients :
          failed(c) =>
              /\ Len(trace') = Len(trace) + 1
              /\ trace'[Len(trace')].event = "error"
              /\ trace'[Len(trace')].client = c
              /\ trace'[Len(trace')].payload = reply'[c].err
              /\ result'[c].error = reply'[c].err
              /\ result'[c].ids = <<>>]_vars

\* C13: each getIds call runs the script once: a call whose script reports
\* the lock or a shard out of range is over with that error, without a
\* second invocation: calls made = calls settled + calls in flight.
C13_NoRetry ==
    /\ Len(log) + Cardinality({c \in Clients : pc[c] = "called"}) = calls
    /\ \A c \in Clients : result[c].status = "error" => pc[c] = "idle"

\* a call was refused by the lock and the next one by the lock again
C13_Witness ==
    /\ calls = 2
    /\ Len(log) = 2
    /\ log[1].status = "ok"
    /\ result[1].status = "error"
    /\ reply[1].err = "Kestrel: Cannot generate ID, waiting for lock to expire."


(***************************************************************************)
(* Error classification and connection policies                            *)
(***************************************************************************)
\* the message has the part somewhere between a prefix and a suffix
occursIn(part, message) ==
    \E a, b \in 0..Len(message) :
        /\ a + Len(part) + b = Len(message)
        /\ \A k \in 1..Len(part) : message[a + k] = part[k]

applied(fn) == polOut # <<>> /\ polIn[1].fn = fn

\* C14: every failure of initialize is raised with the message 'Failed to
\* initialize: ' followed by the first classification that applies to the
\* underlying message: NOAUTH, then WRONGPASS, then an unresolved host, then a
\* refused connection, and otherwise the underlying message unchanged.
C14_Classified ==
    applied("initialize") =>
        LET message == polIn[1].arg.message
            raised == polOut[1]
            classification == SubSeq(raised, 2, Len(raised))
            noauth == occursIn(<<"NOAUTH">>, message)
            wrongpass == occursIn(<<"WRONGPASS">>, message)
            host == \/ occursIn(<<"getaddrinfo", "ENOTFOUND">>, message)
                    \/ occursIn(<<"getaddrinfo", "EAI_AGAIN", "invalid-host">>, message)
            refused == occursIn(<<"getaddrinfo", "ECONNREFUSED">>, message)
        IN  /\ Len(raised) >= 1
            /\ raised[1] = "Failed to initialize:"
            /\ noauth => classification = <<"No authentication provided.">>
            /\ (~noauth /\ wrongpass) =>
                   classification = <<"Invalid username-password pair or user is disabled.">>
            /\ (~noauth /\ ~wrongpass /\ host) => classification = <<"Invalid host.">>
            /\ (~noauth /\ ~wrongpass /\ ~host /\ refused) =>
                   classification = <<"Connection refused.">>
            /\ (~noauth /\ ~wrongpass /\ ~host /\ ~refused) => classification = message

\* a message naming both authentication failures is classified as NOAUTH
C14_Witness ==
    /\ applied("initialize")
    /\ polIn[1].arg.message = <<"WRONGPASS", "NOAUTH", "Authentication required">>
    /\ polOut[1] = <<"Failed to initialize:", "No authentication provided.">>

C19_NonRetryable ==
    applied("reconnectOnError") =>
        LET message == polIn[1].arg
            nonRetryable == \/ occursIn(<<"NOAUTH">>, message)
                            \/ occursIn(<<"WRONGPASS">>, message)
                            \/ occursIn(<<"getaddrinfo", "ENOTFOUND">>, message)
                            \/ occursIn(<<"getaddrinfo", "ECONNREFUSED">>, message)
        IN  polOut[1] = ~nonRetryable

(***************************************************************************)
(* Closing the handle and forwarding the events of the client              *)
(***************************************************************************)
\* C15: close() may be called any number of times, on a handle never
\* initialized and on a handle already closed; every call completes without
\* raising, and no call after the first acts on the connection.
C15_Idempotent ==
    /\ outcome # "rejected"
    /\ occurrences("client.removeAllListeners") <= 1
    /\ occurrences("quit") <= 1
    /\ occurrences("disconnect") <= 1

\* the steps the closing call has added to the trace, after its entry mark
closing == SubSeq(trace', Len(trace) + 2, Len(trace'))

\* C16: a close() of an open handle first removes the listeners of the
\* client, then attempts a quit only if the status is ready or connect, then
\* disconnects the client in every case (also when the quit raised), then
\* emits 'disconnected' to the listeners still registered, and last removes
\* the listeners of the instance.
C16_Order ==
    [][(handle # "closed" /\ handle' = "closed") =>
          LET n == Len(closing)
              quits == status \in {"ready", "connect"}
          IN  /\ n >= 4
              /\ closing[1].op = "client.removeAllListeners"
              /\ clisteners' = [e \in ClientEvents |-> 0]
              /\ quits <=> (closing[2].op = "quit")
              /\ \A k \in 1..n : closing[k].op = "quit" => k = 2
              /\ quits => n >= 5
              /\ closing[n - 2].op = "disconnect"
              /\ Cardinality({k \in 1..n : closing[k].op = "disconnect"}) = 1
              /\ closing[n - 1].op = "emit"
              /\ closing[n - 1].event = "disconnected"
              /\ closing[n - 1].handled = ("disconnected" \in klisteners[1])
              /\ closing[n].op = "removeAllListeners"
              /\ klisteners'[1] = {}]_vars

\* a close whose quit raised: the client was disconnected all the same and a
\* registered listener saw 'disconnected'
C16_Witness ==
    /\ handle = "closed"
    /\ \E k \in 1..Len(trace) :
           /\ trace[k].op = "quit"
           /\ trace[k].payload = "raises"
           /\ Len(trace) >= k + 3
           /\ trace[k + 2].op = "disconnect"
           /\ trace[k + 3].event = "disconnected"
           /\ trace[k + 3].handled

\* C17: between initialize and close, every occurrence of one of the ten
\* events on the client produces exactly one emission of the event of the
\* same name on the instance.
C17_OneEmission ==
    [][(/\ handle = "initialized"
        /\ Len(trace') > Len(trace)
        /\ trace'[Len(trace) + 1].op = "clientEvent") =>
          /\ Len(trace') = Len(trace) + 2
          /\ trace'[Len(trace) + 2].op = "emit"
          /\ trace'[Len(trace) + 2].event = trace'[Len(trace) + 1].event]_vars

\* an error of the client has been forwarded once to a listener of the instance
C17_Witness ==
    /\ handle = "initialized"
    /\ Len(trace) = 2
    /\ trace[1].op = "clientEvent" /\ trace[1].event = "error"
    /\ trace[2].op = "emit" /\ trace[2].event = "error"
    /\ trace[2].handled

(***************************************************************************)
(* Failover in sentinel mode                                               *)
(***************************************************************************)
\* C20: in sentinel mode, once the client has reconnected to a newly promoted
\* primary the script installation and the shard identity write have been run
\* again on it, so a getIds on the existing handle that the new primary serves
\* while no lock exists succeeds.
C20_Reinitialized ==
    [][/\ (mode = "sentinel" /\ occurrences("failover")' > occurrences("failover")) =>
              shardId' = <<KESTREL_SHARD_ID>>
       /\ (/\ occurrences("failover") > 0
           /\ pc[1] = "called"
           /\ pc'[1] = "idle"
           /\ ~EXISTS(lockTtl)) => result'[1].status = "ok"]_vars

(***************************************************************************)
(* Frame conditions of the script and the wraparound lock                  *)
(***************************************************************************)
\* C21: a script execution that finds the lock key fails with the lock error
\* and leaves the counter, the lock with its expiry and the shard identity as
\* they were, for every batch size.
C21_LockedNoEffect ==
    [][\A c \in Clients :
          (served(c) /\ lockTtl > 0) =>
              /\ reply'[c].err = LockError
              /\ result'[c].status = "error"
              /\ result'[c].ids = <<>>
              /\ sequence' = sequence
              /\ lockTtl' = lockTtl
              /\ shardId' = shardId]_vars

\* a call has failed on the lock, which is still there
C21_Witness ==
    \E c \in Clients :
        /\ result[c].status = "error"
        /\ reply[c].err = LockError
        /\ lockTtl > 0
        /\ sequence = <<-1>>

\* the shard identity as the script reads it is not one of 1..1023
invalidShard == IF shardId = <<>> THEN TRUE ELSE shardId[1] \notin 1..1023

\* C22: with no lock and a shard identity absent or outside [1, 1023], a
\* script execution with batch size n fails with the shard-out-of-range error
\* and its only effect is a counter n higher than before: no lock is set and
\* the counter is not reset, even when it reaches 4095 or more.
C22_ShardErrorEffect ==
    [][\A c \in Clients :
          (served(c) /\ lockTtl = 0 /\ invalidShard) =>
              /\ reply'[c].err = ShardError
              /\ result'[c].status = "error"
              /\ result'[c].ids = <<>>
              /\ sequence' = <<counterValue + batch[c]>>
              /\ lockTtl' = 0
              /\ shardId' = shardId]_vars

\* the shard error has left the counter beyond the maximum, with no lock
C22_Witness ==
    /\ reply[1].err = ShardError
    /\ result[1].status = "error"
    /\ sequence = <<4096>>
    /\ lockTtl = 0

\* the latest allocation that returned identifiers was a wraparound: it
\* ended on the last sequence number
wrappedLast ==
    IF issued = <<>> THEN FALSE ELSE tripleOf(issued[Len(issued)])[3] = 4095

\* the execution that brings the counter to 4095 or more resets it to -1,
\* sets the lock for 500 ms and reports end = 4095
C23_Wraps(c) ==
    (counterValue + batch[c] >= 4095) =>
        /\ sequence' = <<-1>>
        /\ lockTtl' = 500000
        /\ reply'[c].err = ""
        /\ reply'[c].end = 4095

C23_FromZero(c) ==
    /\ reply'[c].err = ""
    /\ reply'[c].start = 0
    /\ reply'[c].end = batch[c] - 1
    /\ Len(result'[c].ids) = batch[c]

C24_LockWithReset ==
    /\ [](lockTtl > 0 => sequence = <<-1>>)
    /\ [][/\ (lockTtl = 0 /\ lockTtl' > 0) =>
                 \E c \in Clients :
                     /\ served(c)
                     /\ reply'[c].err = ""
                     /\ reply'[c].end = 4095
                     /\ counterValue + batch[c] >= 4095
          /\ (sequence # <<-1>> /\ sequence' = <<-1>>) => lockTtl' = 500000]_vars

\* the lock is set, the counter reset, and another client has a call in flight
C24_Witness ==
    /\ lockTtl > 0
    /\ sequence = <<-1>>
    /\ \E c \in Clients : pc[c] = "called"
    /\ \E c \in Clients : result[c].status = "ok" /\ reply[c].end = 4095

\* C25: no client or script action releases the lock, which only lapses with
\* the store clock; under a clock that keeps advancing a set lock is
\* eventually absent, and a getIds served then, the shard identity valid,
\* succeeds.
C25_LockLapses ==
    /\ [][lockTtl' < lockTtl =>
              /\ elapsed' > elapsed
              /\ lockTtl' = (IF lockTtl > elapsed' - elapsed THEN lockTtl - (elapsed' - elapsed) ELSE 0)
              /\ \A c \in Clients : pc'[c] = pc[c]]_vars
    /\ (lockTtl > 0) ~> (lockTtl = 0)
    /\ [][\A c \in Clients :
              (served(c) /\ lockTtl = 0 /\ ~invalidShard) => result'[c].status = "ok"]_vars

\* the lock was set, has lapsed, and the call served after it has succeeded
C25_Witness ==
    /\ lockTtl = 0
    /\ Len(log) = 2
    /\ log[1].status = "ok"
    /\ log[1].at = 0
    /\ log[2].status = "ok"
    /\ log[2].at >= 500000
    /\ sequence # <<-1>>

Mutations == {"INCRBY", "SET", "PSETEX"}

\* C27: on every path of the script that returns a result the store clock is
\* read once, after the counter increment, the counter reset and the lock
\* set, and the time of the reply is the time read there.
C27_TimeReadLast ==
    [][\A c \in Clients :
          (served(c) /\ reply'[c].err = "") =>
              LET cmds == commands(sequence, lockTtl, shardId, MAX_SEQUENCE, MIN_LOGICAL_SHARD_ID,
                                   MAX_LOGICAL_SHARD_ID, batch[c])
                  n == Len(cmds)
              IN  /\ cmds[n] = "TIME"
                  /\ \A k \in 1..(n - 1) : cmds[k] # "TIME"
                  /\ \E k \in 1..n : cmds[k] = "INCRBY"
                  /\ (sequence' = <<-1>> /\ lockTtl' > 0) =>
                         /\ \E k \in 1..n : cmds[k] = "SET"
                         /\ \E k \in 1..n : cmds[k] = "PSETEX"
                  /\ reply'[c].sec = TIME.sec
                  /\ reply'[c].usec = TIME.usec]_vars

\* a reply carries the time read after a clock step, by the execution that
\* reset the counter and set the lock
C27_Witness ==
    /\ result[1].status = "ok"
    /\ reply[1].end = 4095
    /\ elapsed > 0
    /\ reply[1].usec = elapsed % 1000000
    /\ lockTtl = 500000

\* C28: the client caches no shard identity: every identifier a getIds call
\* returns carries the identity the store held when the script of that call
\* executed, so after a change of the stored value the identifiers of the
\* next call carry the new value.
C28_ShardFromStore ==
    [][\A c \in Clients :
          (served(c) /\ result'[c].status = "ok") =>
              /\ shardId # <<>>
              /\ \A k \in 1..Len(result'[c].ids) : tripleOf(result'[c].ids[k])[2] = shardId[1]]_vars

\* two calls on either side of a rewrite of the shard identity have returned
\* identifiers of shard 1 and of shard 1023
C28_Witness ==
    /\ Len(log) = 2
    /\ Len(issued) >= 2
    /\ tripleOf(issued[1])[2] = 1
    /\ tripleOf(issued[Len(issued)])[2] = 1023
    /\ shardId = <<1023>>

(***************************************************************************)
(* The initial connection attempt                                          *)
(***************************************************************************)
\* what the step has added to the trace
added == SubSeq(trace', Len(trace) + 1, Len(trace'))

C30_AttachedOnce ==
    /\ [](handle \in {"initialized", "failed"} => clisteners["error"] = 1)
    /\ [][(/\ handle \in {"initialized", "failed"}
            /\ Len(added) > 0
            /\ added[1].op = "clientEvent"
            /\ added[1].event = "error") =>
              Cardinality({k \in 1..Len(added) : added[k].op = "emit" /\ added[k].event = "error"}) = 1]_vars

\* C37: between script executions the stored sequence counter is in
\* [-1, 4095] (or the key is absent), whatever allocation attempts failed
\* before.
C37_CounterInRange == sequence = <<>> \/ sequence[1] \in -1..4095

\* Concurrent clients right before a wraparound while deployments rewrite
\* the shard identity: allocations succeed, fail on the lock and fail on the
\* shard identity.
NextFields ==
    \/ \E c \in Clients, n \in ShardCounts : GetIdsCall(c, n)
    \/ \E c \in Clients : GenerateIds(c)
    \/ \E d \in TickSteps : Tick(d)
    \/ \E v \in ShardIds : SetShardId(v)

SpecFields == InitLock /\ [][NextFields]_vars

\* C38: every identifier a getIds call returns, after whatever successful and
\* failed allocations of whatever clients, carries a sequence number in
\* [0, 4095] and a shard identity in [1, 1023], each in its own field: the
\* identifier is the sum of the shifted fields and decodes to them.
C38_FieldsInRange ==
    [][\A c \in Clients :
          (served(c) /\ result'[c].status = "ok") =>
              LET r == reply'[c]
                  t == BigSub(storeMs(r), EpochMs)
              IN  \A k \in 1..Len(result'[c].ids) :
                      LET q == r.start + k - 1
                          id == result'[c].ids[k]
                      IN  /\ q \in 0..4095
                          /\ r.shard \in 1..1023
                          /\ id = BigAdd(BigShl(t, 22), BigFromInt(r.shard * 4096 + q))
                          /\ tripleOf(id)[2] = r.shard
                          /\ tripleOf(id)[3] = q
                          /\ BigIntOfNumber(tripleOf(id)[1]) = t]_vars

\* after a failed allocation a client was returned the identifier with the
\* largest shard identity and the largest sequence number
C38_Witness ==
    /\ \E k \in 1..Len(log) : log[k].status = "error"
    /\ \E c \in Clients :
          /\ result[c].status = "ok"
          /\ Len(result[c].ids) > 0
          /\ reply[c].shard = 1023
          /\ reply[c].end = 4095

(***************************************************************************)
(* Kestrel.#init after #initEvents, the topology handlers and close        *)
(***************************************************************************)
MaxJoins == 2
MaxLeaves == 1

\* the name of a store node in a notification
nodeName(n) == "node" \o ToString(n)

\* a command sent to a store node, as an entry of the trace
command(name, n) == [step("command", nodeName(n)) EXCEPT !.event = name]

\* the INFO replication replies of a primary, of a replica, and of a node
\* whose reply has no role line
InfoReplies ==
    {<<<<<<"# Replication", "\r">>>>, <<<<"role">>, <<"master", "\r">>>>, <<<<"connected_slaves">>, <<"0", "\r">>>>>>,
     <<<<<<"# Replication", "\r">>>>, <<<<"role">>, <<"slave", "\r">>>>, <<<<"master_host">>, <<"10.0.0.1", "\r">>>>>>,
     <<<<<<"# Replication", "\r">>>>>>}

\* the script caches a node may have when a client connects: empty, holding
\* the allocation script, holding another script
Caches == {{}, {sha1(GENERATE_IDS_SCRIPT)}, {sha1(OTHER_SCRIPT)}}

\* initialize: catch (err) { ... throw new Error('Failed to initialize: ...') }
initRejects(message) == <<step("reject", message)>>

\* a command awaited by #init fails: #init throws (in sentinel mode, the
\* error of its catch block) and initialize rejects
initFails ==
    initRejects(IF mode = "sentinel" THEN "Failed to fetch Redis master info:" ELSE "Connection is closed.")

\* #init goes on once #initEvents has resolved, up to its first await:
\* cluster.set(...) in cluster mode (the status is ready), INFO replication in
\* sentinel mode, the SCRIPT EXISTS of #loadScript in single-node mode
InitContinues ==
    /\ handle = "initialized"
    /\ ipc = "events"
    /\ ipc' = CASE mode = "cluster" -> "set" [] mode = "sentinel" -> "info" [] OTHER -> "loadScript"
    /\ jobs' = IF mode = "single" THEN [jobs EXCEPT ![1] = <<"exists">>] ELSE jobs
    /\ trace' = trace \o <<command(CASE mode = "cluster" -> "SET" [] mode = "sentinel" -> "INFO"
                                   [] OTHER -> "SCRIPT EXISTS", 1)>>
    /\ UNCHANGED <<storeVars, clientVars, codecVars, klisteners, mode, handle, status, clisteners,
                   outcome, oneshots, scripts, info, timer, policyVars>>

\* The connected node answers INFO replication, or the command fails. A
\* primary: #loadScript sends SCRIPT EXISTS. Any other role: #init returns.
InfoAnswers(ok) ==
    /\ ipc = "info"
    /\ handle = "initialized"
    /\ IF ~ok
       THEN /\ ipc' = "rejected"
            /\ trace' = trace \o initFails
            /\ jobs' = jobs
       ELSE IF isMaster(info)
       THEN /\ ipc' = "loadScript"
            /\ jobs' = [jobs EXCEPT ![1] = <<"exists">>]
            /\ trace' = trace \o <<command("SCRIPT EXISTS", 1)>>
       ELSE /\ ipc' = "resolved"
            /\ jobs' = jobs
            /\ trace' = trace \o <<step("resolve", "initialize")>>
    /\ UNCHANGED <<storeVars, clientVars, codecVars, klisteners, mode, handle, status, clisteners,
                   outcome, oneshots, scripts, info, timer, policyVars>>

\* what follows a #loadScript that has returned for node n: in cluster mode
\* handleNodeAdded emits scriptLoaded; otherwise #init sends the SET of the
\* shard identity
loaded(n) ==
    IF mode = "cluster"
    THEN <<emit(klisteners[1], "scriptLoaded", nodeName(n))>>
    ELSE <<command("SET", n)>>

\* what follows a #loadScript that has failed for node n: the promise of
\* handleNodeAdded is rejected and nobody handles it; #init throws
loadFailed(n) ==
    IF mode = "cluster" THEN <<step("unhandledRejection", nodeName(n))>> ELSE initFails

\* Node n answers the SCRIPT EXISTS at the head of its pending loader
\* commands, or the command fails (always, once the client is disconnected).
ScriptExists(n, ok) ==
    /\ jobs[n] # <<>>
    /\ Head(jobs[n]) = "exists"
    /\ ok => handle # "closed"
    /\ LET exists == SCRIPT_EXISTS(scripts[n], sha1(GENERATE_IDS_SCRIPT))
           answered == [step("answer", nodeName(n)) EXCEPT !.event = "SCRIPT EXISTS"]
       IN  IF ~ok
           THEN /\ jobs' = [jobs EXCEPT ![n] = Tail(@)]
                /\ trace' = trace \o <<answered>> \o loadFailed(n)
                /\ ipc' = IF mode = "cluster" THEN ipc ELSE "rejected"
           ELSE IF uploads(exists)
           THEN /\ jobs' = [jobs EXCEPT ![n] = Append(Tail(@), "load")]
                /\ trace' = trace \o <<answered, command("SCRIPT LOAD", n)>>
                /\ ipc' = ipc
           ELSE /\ jobs' = [jobs EXCEPT ![n] = Tail(@)]
                /\ trace' = trace \o <<answered>> \o loaded(n)
                /\ ipc' = IF mode = "cluster" THEN ipc ELSE "set"
    /\ UNCHANGED <<storeVars, clientVars, codecVars, klisteners, mode, handle, status, clisteners,
                   outcome, oneshots, scripts, info, timer, policyVars>>

\* Node n executes the SCRIPT LOAD at the head of its pending loader
\* commands, or the command fails.
ScriptLoad(n, ok) ==
    /\ jobs[n] # <<>>
    /\ Head(jobs[n]) = "load"
    /\ ok => handle # "closed"
    /\ jobs' = [jobs EXCEPT ![n] = Tail(@)]
    /\ LET answered == [step("answer", nodeName(n)) EXCEPT !.event = "SCRIPT LOAD"]
       IN  IF ~ok
           THEN /\ scripts' = scripts
                /\ trace' = trace \o <<answered>> \o loadFailed(n)
                /\ ipc' = IF mode = "cluster" THEN ipc ELSE "rejected"
           ELSE /\ scripts' = [scripts EXCEPT ![n] = SCRIPT_LOAD(@, GENERATE_IDS_SCRIPT)]
                /\ trace' = trace \o <<answered>> \o loaded(n)
                /\ ipc' = IF mode = "cluster" THEN ipc ELSE "set"
    /\ UNCHANGED <<storeVars, clientVars, codecVars, klisteners, mode, handle, status, clisteners,
                   outcome, oneshots, info, timer, policyVars>>

\* a write that keeps the value a key already holds
setIfAbsent(key, value) == IF key = <<>> THEN <<value>> ELSE key

\* this.#client.set(KESTREL_SHARD_ID_KEY, KESTREL_SHARD_ID): the key afterwards
set(key, value) == <<value>>

\* The store executes SET shard-id-key KESTREL_SHARD_ID, or the command
\* fails. Cluster mode: the debounced topology handlers are attached and
\* 'connected' is emitted. Otherwise 'scriptLoaded' is emitted. #init returns
\* and initialize resolves with the instance.
ShardSet(ok) ==
    /\ ipc = "set"
    /\ handle = "initialized"
    /\ IF ~ok
       THEN /\ ipc' = "rejected"
            /\ shardId' = shardId
            /\ trace' = trace \o initFails
       ELSE /\ ipc' = "resolved"
            /\ shardId' = set(shardId, KESTREL_SHARD_ID)
            /\ trace' = trace \o <<[step("answer", nodeName(1)) EXCEPT !.event = "SET"],
                                   emit(klisteners[1], IF mode = "cluster" THEN "connected" ELSE "scriptLoaded",
                                        nodeName(1)),
                                   step("resolve", "initialize")>>
    /\ UNCHANGED <<sequence, lockTtl, bootSec, elapsed, ticks, clientVars, codecVars, klisteners, mode,
                   handle, status, clisteners, outcome, oneshots, scripts, info, timer, jobs, policyVars>>

\* A handle inside Kestrel.initialize, waiting in #initEvents for the first
\* outcome of the connection, in one of the three modes. The store outlives
\* its clients: the shard identity is absent or was written, valid or not,
\* by an earlier deployment, and the script cache of a node is empty, holds
\* the script, or holds another one. In sentinel mode the connected node is
\* a primary, a replica, or gives no role.
InitInit ==
    /\ sequence = <<>>
    /\ lockTtl = 0
    /\ shardId \in {<<>>, <<0>>, <<1023>>}
    /\ bootSec = PresentSec
    /\ elapsed = 0
    /\ ticks = 0
    /\ InitClients
    /\ InitDecode
    /\ InitPolicy
    /\ klisteners = [c \in Clients |-> {}]
    /\ trace = <<>>
    /\ mode \in {"single", "sentinel", "cluster"}
    /\ handle = "connecting"
    /\ status = IF mode = "cluster" THEN "connecting" ELSE "wait"
    /\ clisteners = suspend(attached)
    /\ outcome = "none"
    /\ oneshots = {"onReady", "onError"}
    /\ ipc = "events"
    /\ scripts \in {[n \in Nodes |-> c] : c \in Caches}
    /\ info \in IF mode = "sentinel" THEN InfoReplies ELSE {<<>>}
    /\ timer = NoTimers
    /\ jobs = [n \in Nodes |-> <<>>]

\* Initialization from the connection to the first allocations through the
\* returned handle, while other deployments write their shard identity.
NextInit ==
    \/ \E e \in {"ready", "error"} : ConnectEvent(e)
    \/ ConnectRejects
    \/ InitContinues
    \/ \E ok \in BOOLEAN : InfoAnswers(ok)
    \/ \E n \in Nodes, ok \in BOOLEAN : ScriptExists(n, ok)
    \/ \E n \in Nodes, ok \in BOOLEAN : ScriptLoad(n, ok)
    \/ \E ok \in BOOLEAN : ShardSet(ok)
    \/ \E v \in ShardIds : SetShardId(v)
    \/ ipc = "resolved" /\ GetIdsCall(1, 1)
    \/ ipc = "resolved" /\ GenerateIds(1)

SpecInit == InitInit /\ [][NextInit]_vars

\* initialize resolves in this step
resolves == ipc # "resolved" /\ ipc' = "resolved"

\* in single-node mode initialize resolves only with the script in the cache
\* of the node and the shard identity key holding the configured value,
\* whatever the key held before
C31_Installed ==
    (mode = "single" /\ resolves) =>
        /\ sha1(GENERATE_IDS_SCRIPT) \in scripts'[1]
        /\ shardId' = <<KESTREL_SHARD_ID>>

\* C31 as stated: in single-node mode initialize resolves only after the
\* script has been installed and the configured shard identity written over
\* any previous value, so every getIds issued through the returned handle
\* executes with the shard identity key set to the configured value.
C31_AlwaysConfigured ==
    /\ [][C31_Installed]_vars
    /\ [][(mode = "single" /\ served(1)) => shardId = <<KESTREL_SHARD_ID>>]_vars

\* C31: in single-node mode initialize resolves only after the script has
\* been installed and the configured shard identity written over any previous
\* value; the key keeps the configured value until another initialization
\* rewrites it, and a getIds issued through the returned handle while it
\* holds that value executes with it.
C31_ConfiguredUntilRewritten ==
    /\ [][C31_Installed]_vars
    /\ [][(/\ mode = "single"
           /\ ipc = "resolved"
           /\ shardId = <<KESTREL_SHARD_ID>>
           /\ ~(\E v \in ShardIds : SetShardId(v))) => shardId' = <<KESTREL_SHARD_ID>>]_vars
    /\ [][(mode = "single" /\ served(1) /\ shardId = <<KESTREL_SHARD_ID>>) =>
              /\ reply'[1].err = ""
              /\ reply'[1].shard = KESTREL_SHARD_ID]_vars

\* a single-node initialization has uploaded the script and resolved, and a
\* getIds through the handle was served with the configured shard identity
C31_Witness ==
    /\ mode = "single"
    /\ ipc = "resolved"
    /\ \E k \in 1..Len(trace) : trace[k].op = "command" /\ trace[k].event = "SCRIPT LOAD"
    /\ result[1].status = "ok"
    /\ reply[1].shard = KESTREL_SHARD_ID

\* the connected node reports the replication role 'master'
primary == \E k \in 1..Len(info) : Len(info[k]) = 2 /\ info[k][1] = <<"role">> /\ info[k][2][1] = "master"

\* the commands the initialization has sent so far
sent == {trace[k].event : k \in {j \in 1..Len(trace) : trace[j].op = "command"}}

\* C32: in sentinel mode the initialization installs the script and writes
\* the shard identity if and only if the connected node reports the role
\* 'master': with that role it resolves only with the script in the cache of
\* the node and the configured identity in the key; with any other role it
\* sends nothing but the INFO command, changes no script cache, and resolves
\* as soon as the reply is there.
C32_OnlyOnPrimary ==
    /\ [](mode = "sentinel" /\ ~primary => sent \subseteq {"INFO"})
    /\ [][mode = "sentinel" =>
            /\ (primary /\ resolves) =>
                   /\ sha1(GENERATE_IDS_SCRIPT) \in scripts'[1]
                   /\ shardId' = <<KESTREL_SHARD_ID>>
                   /\ {"SCRIPT EXISTS", "SET"} \subseteq sent
            /\ ~primary =>
                   /\ scripts' = scripts
                   /\ (ipc = "info" /\ ipc' \notin {"info", "rejected"}) => resolves
                   /\ shardId' # shardId => \E v \in ShardIds : SetShardId(v)]_vars

\* an initialization against a replica has resolved
C32_Witness ==
    /\ mode = "sentinel"
    /\ ipc = "resolved"
    /\ infoMap(info, <<"role">>) = <<"slave">>
    /\ sent = {"INFO"}

\* Kestrel.initialize has rejected: #initEvents rejected or a later await of
\* #init threw
rejected == handle = "failed" \/ ipc = "rejected"

\* C39: whenever Kestrel.initialize has rejected, at whatever step, the
\* connection of the underlying client has been terminated (disconnect has
\* been called on it).
C39_Terminated == rejected => occurrences("disconnect") > 0

\* the topology events of a cluster client and the timer of their handler
topology == [added |-> "+node", removed |-> "-node"]

nodeEvents(kind) == Cardinality({k \in 1..Len(trace) : trace[k].op = "nodeEvent" /\ trace[k].event = topology[kind]})

\* a handler of node-leave events that also installs the script
handleNodeRemovedLoads(listeners, n) ==
    <<emit(listeners, "nodeRemoved", nodeName(n)), command("SCRIPT EXISTS", n)>>

\* handleNodeRemoved: this.emit(NODE_REMOVED, ...)
handleNodeRemoved(listeners, n) == <<emit(listeners, "nodeRemoved", nodeName(n))>>

\* #debounce: clearTimeout(timeout); timeout = setTimeout(() => func(...args), wait):
\* the pending call is replaced by the call for node n
debounce(pending, n) == <<n>>

\* The cluster client emits '+node' or '-node' for node n. The debounced
\* handler runs if it is still attached: close() detaches it.
NodeEvent(kind, n) ==
    /\ mode = "cluster"
    /\ ipc = "resolved"
    /\ nodeEvents(kind) < (IF kind = "added" THEN MaxJoins ELSE MaxLeaves)
    /\ trace' = trace \o <<[step("nodeEvent", nodeName(n)) EXCEPT !.event = topology[kind]]>>
    /\ timer' = IF handle = "initialized" THEN [timer EXCEPT ![kind] = debounce(@, n)] ELSE timer
    /\ UNCHANGED <<storeVars, clientVars, codecVars, klisteners, mode, handle, status, clisteners,
                   outcome, oneshots, ipc, scripts, info, jobs, policyVars>>

\* The timer of a debounced handler expires, 300 ms after the last event of
\* its kind. handleNodeAdded emits 'nodeAdded' and #loadScript sends SCRIPT
\* EXISTS to the node (a disconnected client rejects the command at once);
\* handleNodeRemoved emits 'nodeRemoved'.
TimerFires(kind) ==
    /\ timer[kind] # <<>>
    /\ timer' = [timer EXCEPT ![kind] = <<>>]
    /\ LET n == timer[kind][1]
       IN  IF kind = "removed"
           THEN /\ trace' = trace \o <<step("timeout", kind)>> \o handleNodeRemoved(klisteners[1], n)
                /\ jobs' = jobs
           ELSE IF handle = "closed"
           THEN /\ trace' = trace \o <<step("timeout", kind), emit(klisteners[1], "nodeAdded", nodeName(n)),
                                       step("unhandledRejection", nodeName(n))>>
                /\ jobs' = jobs
           ELSE /\ trace' = trace \o <<step("timeout", kind), emit(klisteners[1], "nodeAdded", nodeName(n)),
                                       command("SCRIPT EXISTS", n)>>
                /\ jobs' = [jobs EXCEPT ![n] = Append(@, "exists")]
    /\ UNCHANGED <<storeVars, clientVars, codecVars, klisteners, mode, handle, status, clisteners,
                   outcome, oneshots, ipc, scripts, info, policyVars>>

\* close() up to its await: the reference to the client is cleared, all
\* listeners are removed from the client and, the client being ready, QUIT is
\* sent. A client that is not ready is not awaited: close runs to its end.
CloseBegins ==
    /\ handle = "initialized"
    /\ ipc = "resolved"
    /\ clisteners' = unattached
    /\ oneshots' = {}
    /\ IF status \in {"ready", "connect"}
       THEN /\ trace' = trace \o <<step("close", ""), step("client.removeAllListeners", ""), step("quit", "sent")>>
            /\ handle' = "closing"
            /\ UNCHANGED <<status, klisteners, outcome>>
       ELSE /\ trace' = trace \o <<step("close", "")>> \o closeSteps(handle, status, klisteners[1], "ok").steps
            /\ handle' = "closed"
            /\ status' = "end"
            /\ klisteners' = [klisteners EXCEPT ![1] = {}]
            /\ outcome' = "resolved"
    /\ UNCHANGED <<storeVars, clientVars, codecVars, mode, installVars, policyVars>>

\* close() after its await: the QUIT has been answered or has failed; an
\* error is emitted for a failure, the client is disconnected, 'disconnected'
\* is emitted and the listeners of the instance are removed.
CloseEnds(quit) ==
    /\ handle = "closing"
    /\ trace' = trace \o (IF quit = "raises" THEN <<emit(klisteners[1], "error", "quit failed")>> ELSE <<>>)
                      \o disconnect(quit)
                      \o <<emit(klisteners[1], "disconnected", "Redis client disconnected."),
                           step("removeAllListeners", "")>>
    /\ outcome' = IF quit = "raises" /\ emitThrows(klisteners[1], "error") THEN "rejected" ELSE "resolved"
    /\ handle' = "closed"
    /\ status' = "end"
    /\ klisteners' = [klisteners EXCEPT ![1] = {}]
    /\ UNCHANGED <<storeVars, clientVars, codecVars, mode, clisteners, oneshots, installVars, policyVars>>

\* the notifications of the topology handlers
Notifications == {"nodeAdded", "nodeRemoved", "scriptLoaded"}

\* A cluster client whose #initEvents has just resolved: the cluster is
\* ready, the shard identity is not yet written. Nobody holds the instance
\* yet; listeners are registered once initialize has returned it.
InitCluster ==
    /\ sequence = <<>>
    /\ lockTtl = 0
    /\ shardId \in {<<>>, <<1023>>}
    /\ bootSec = PresentSec
    /\ elapsed = 0
    /\ ticks = 0
    /\ InitClients
    /\ InitDecode
    /\ InitPolicy
    /\ klisteners = [c \in Clients |-> {}]
    /\ trace = <<>>
    /\ mode = "cluster"
    /\ handle = "initialized"
    /\ status = "ready"
    /\ clisteners = forwarders
    /\ outcome = "none"
    /\ oneshots = {}
    /\ ipc = "events"
    /\ scripts \in {[n \in Nodes |-> c] : c \in Caches}
    /\ info = <<>>
    /\ timer = NoTimers
    /\ jobs = [n \in Nodes |-> <<>>]

\* kestrel.on(e, listener) for every notification and for 'error'
Listen ==
    /\ ipc = "resolved"
    /\ handle = "initialized"
    /\ klisteners[1] = {}
    /\ klisteners' = [klisteners EXCEPT ![1] = Notifications \cup {"error"}]
    /\ UNCHANGED <<storeVars, clientVars, codecVars, trace, lifeVars, policyVars>>

\* the caller has registered its listeners, or has closed the handle
listening == klisteners[1] # {} \/ handle # "initialized"

\* Nodes join a cluster whose handle is listening; every command succeeds.
NextJoin ==
    \/ InitContinues
    \/ ShardSet(TRUE)
    \/ Listen
    \/ \E n \in Nodes : listening /\ NodeEvent("added", n)
    \/ TimerFires("added")
    \/ \E n \in Nodes : ScriptExists(n, TRUE)
    \/ \E n \in Nodes : ScriptLoad(n, TRUE)

\* A timer that is not set again expires, and a node answers the commands
\* it has received.
SpecJoin ==
    /\ InitCluster
    /\ [][NextJoin]_vars
    /\ WF_vars(TimerFires("added"))
    /\ \A n \in Nodes : WF_vars(ScriptExists(n, TRUE)) /\ WF_vars(ScriptLoad(n, TRUE))

\* Nodes leave a cluster whose handle is listening, until it is closed.
NextLeave ==
    \/ InitContinues
    \/ \E ok \in BOOLEAN : ShardSet(ok)
    \/ Listen
    \/ \E n \in Nodes : listening /\ NodeEvent("removed", n)
    \/ TimerFires("removed")
    \/ listening /\ CloseBegins
    \/ \E quit \in {"ok", "raises"} : CloseEnds(quit)

SpecLeave == InitCluster /\ [][NextLeave]_vars

\* Nodes join a cluster whose handle is listening and is closed meanwhile; a
\* command succeeds unless the client has been disconnected.
NextCluster ==
    \/ InitContinues
    \/ ShardSet(TRUE)
    \/ Listen
    \/ \E n \in Nodes : listening /\ NodeEvent("added", n)
    \/ TimerFires("added")
    \/ \E n \in Nodes : ScriptExists(n, handle # "closed")
    \/ \E n \in Nodes : ScriptLoad(n, handle # "closed")
    \/ listening /\ CloseBegins
    \/ CloseEnds("ok")

SpecCluster == InitCluster /\ [][NextCluster]_vars

\* the cluster client has emitted '+node' for node n
joined(n) ==
    \E k \in 1..Len(trace) :
        trace[k].op = "nodeEvent" /\ trace[k].event = "+node" /\ trace[k].payload = nodeName(n)

\* 'nodeAdded' and then 'scriptLoaded' have been emitted for node n
notified(n) ==
    \E i, j \in 1..Len(trace) :
        /\ i < j
        /\ trace[i].op = "emit" /\ trace[i].event = "nodeAdded" /\ trace[i].payload = nodeName(n)
        /\ trace[j].op = "emit" /\ trace[j].event = "scriptLoaded" /\ trace[j].payload = nodeName(n)

\* C33: in cluster mode, after every '+node' event for a node, including
\* several joins of different nodes within one debounce window, the script is
\* eventually in the cache of that node and 'nodeAdded' followed by
\* 'scriptLoaded' has been emitted for it.
C33_EveryJoinServed ==
    \A n \in Nodes :
        joined(n) ~> (sha1(GENERATE_IDS_SCRIPT) \in scripts[n] /\ notified(n))

\* the number of times the command name has been sent
sends(name) == Cardinality({k \in 1..Len(trace) : trace[k].op = "command" /\ trace[k].event = name})

\* the step is the arrival of a '-node' event or the expiry of the timer of
\* its handler
leaving ==
    /\ added # <<>>
    /\ \/ added[1].op = "nodeEvent" /\ added[1].event = "-node"
       \/ added[1].op = "timeout" /\ added[1].payload = "removed"

answers(n) ==
    /\ added # <<>>
    /\ added[1].op = "answer" /\ added[1].event = "SCRIPT EXISTS" /\ added[1].payload = nodeName(n)

\* a SCRIPT LOAD is sent to node n in this step
uploading(n) ==
    \E k \in 1..Len(added) :
        added[k].op = "command" /\ added[k].event = "SCRIPT LOAD" /\ added[k].payload = nodeName(n)

\* C35: the loader sends SCRIPT LOAD to a node only on the reply of that node
\* that no script with the SHA-1 of the source exists; on a node that reports
\* the script it uploads nothing and returns; an installation adds the one
\* script to the cache and changes nothing else, and installing again on the
\* result uploads nothing, leaves the cache as it is and returns the same hash.
C35_Idempotent ==
    /\ [][\A n \in Nodes :
            /\ uploading(n) => (answers(n) /\ sha1(GENERATE_IDS_SCRIPT) \notin scripts[n])
            /\ (answers(n) /\ sha1(GENERATE_IDS_SCRIPT) \in scripts[n]) =>
                   /\ ~uploading(n)
                   /\ added[Len(added)] = emit(klisteners[1], "scriptLoaded", nodeName(n))
            /\ scripts'[n] \in {scripts[n], scripts[n] \cup {sha1(GENERATE_IDS_SCRIPT)}}]_vars
    /\ [](\A n \in Nodes :
            LET once == loadScript(scripts[n], GENERATE_IDS_SCRIPT)
                twice == loadScript(once.cache, GENERATE_IDS_SCRIPT)
            IN  /\ once.cache = scripts[n] \cup {sha1(GENERATE_IDS_SCRIPT)}
                /\ once.uploads = IF sha1(GENERATE_IDS_SCRIPT) \in scripts[n] THEN 0 ELSE 1
                /\ twice = [cache |-> once.cache, uploads |-> 0, sha |-> once.sha])

\* the script was installed twice on node 1, whose cache held another
\* script: one upload, and both scripts in the cache
C35_Witness ==
    /\ Cardinality({k \in 1..Len(trace) : trace[k].op = "answer" /\ trace[k].event = "SCRIPT EXISTS"
                                           /\ trace[k].payload = nodeName(1)}) = 2
    /\ Cardinality({k \in 1..Len(trace) : trace[k].op = "command" /\ trace[k].event = "SCRIPT LOAD"
                                           /\ trace[k].payload = nodeName(1)}) = 1
    /\ scripts[1] = {sha1(OTHER_SCRIPT), sha1(GENERATE_IDS_SCRIPT)}
    /\ jobs[1] = <<>>

\* the step sends no command and calls no listener with a notification
quiet ==
    \A k \in 1..Len(added) :
        /\ added[k].op # "command"
        /\ ~(added[k].op = "emit" /\ added[k].event \in Notifications /\ added[k].handled)

\* C36: once close() has started, no event or callback that arrives later,
\* the expiry of a debounce timer that was pending included, calls a listener
\* of the instance with a notification or sends a command to a store node.
C36_QuietAfterClose == [][(handle \in {"closing", "closed"}) => quiet]_vars

====
